---- MODULE Spec2Model ----
(***************************************************************************)
(* CedarPolicyHarness (src/sondera/harness/cedar/harness.py): the policy   *)
(* store validation done by the constructor, the trajectory lifecycle      *)
(* (initialize / resume / finalize) and adjudicate with the merge rule of  *)
(* _convert_cedar_response_to_adjudication.                                *)
(***************************************************************************)
EXTENDS Integers, Sequences, FiniteSets, TLC

\* Python's None, for every optional string-valued field.
None == "None"
\* An annotation that the policy text does not carry.
NoAnn == "NoAnn"
\* A field of the call record that the call did not produce.
NA == "-"

(***************************************************************************)
(* Bounds of the model.                                                    *)
(***************************************************************************)
\* Largest number of policies in a policy set.
MaxPolicies == 2
\* The N of the rate-limit policy "forbid when resource.step_count > N".
Limit == 1
\* adjudicate is called at most this many times on one trajectory.
MaxSteps == Limit + 1
\* initialize is called at most this many times on one harness.
MaxTrajectories == 2

(***************************************************************************)
(* Types.                                                                  *)
(***************************************************************************)
Stages == {"PRE_RUN", "PRE_MODEL", "POST_MODEL", "PRE_TOOL", "POST_TOOL", "POST_RUN"}
ContentKinds == {"PromptContent", "ToolRequestContent", "ToolResponseContent"}
\* The tools of the governed agent (tool.id is unset, so tool_id = tool.name).
ToolIds == {"exec-cmd"}
Agents == {"agent"}

\* str.replace(" ", "_").replace("-", "_") on the tool names of the model.
Sanitize(tool_id) ==
    CASE tool_id = "exec-cmd" -> "exec_cmd"
      [] tool_id = "exec cmd" -> "exec_cmd"
      [] tool_id = "Test Agent" -> "Test_Agent"
      [] OTHER -> tool_id

(***************************************************************************)
(* Policies.  A policy carries its annotations (@id, @escalate; no @reason *)
(* and no custom annotation), its effect and its scope/condition:          *)
(*   "always": permit|forbid(principal, action, resource);                 *)
(*   "rate":   ...(principal, action, resource)                            *)
(*             when { resource has step_count &&                           *)
(*                    resource.step_count > Limit };                       *)
(* The evaluator's internal identifier of a policy is its position in the  *)
(* policy set (policy0, policy1, ...).                                     *)
(***************************************************************************)
AnnotationIds == {NoAnn, "a", "b"}
Effects == {"Permit", "Forbid"}
EscalateValues == {NoAnn, "", "team"}
Whens == {"always", "rate"}
Policies == [id : AnnotationIds, effect : Effects, escalate : EscalateValues, when : Whens]

\* A total order on policies. The harness treats a policy set as a set: the
\* evaluator numbers the policies, policies() yields them in an order of its
\* own and the reason of a response lists them in an order of its own. So a
\* policy set is modelled once, with its policies numbered in this order,
\* and the two orders that the code can observe are drawn where it reads them.
Rank(policy) ==
    LET id == CASE policy.id = NoAnn -> 0 [] policy.id = "a" -> 1 [] OTHER -> 2
        effect == IF policy.effect = "Permit" THEN 0 ELSE 1
        escalate == CASE policy.escalate = NoAnn -> 0 [] policy.escalate = "" -> 1 [] OTHER -> 2
        when == IF policy.when = "always" THEN 0 ELSE 1
    IN ((id * 2 + effect) * 3 + escalate) * 2 + when

PolicySets ==
    {ps \in UNION {[1..n -> Policies] : n \in 0..MaxPolicies} :
        \A i, j \in DOMAIN ps : i < j => Rank(ps[i]) <= Rank(ps[j])}

\* All orders in which the members of a finite set can be listed.
Orders(S) == {s \in [1..Cardinality(S) -> S] : \A i, j \in 1..Cardinality(S) : s[i] = s[j] => i = j}


(***************************************************************************)
(* Policy store validation: the loop of CedarPolicyHarness.__init__.       *)
(***************************************************************************)
\* The outcome of an operation: the exception it raised (None when it
\* returned) and, for adjudicate, the Adjudication it returned.
Raise(error, message) ==
    [error |-> error, message |-> message, decision |-> NA, reason |-> NA, policies |-> <<>>]
Return(decision, reason, policies) ==
    [error |-> None, message |-> NA, decision |-> decision, reason |-> reason, policies |-> policies]
Returned == [error |-> None, message |-> NA, decision |-> NA, reason |-> NA, policies |-> <<>>]

\* CheckPolicy without the @escalate-on-forbid test.
CheckPolicy_EscalateAnyEffect(policy, seen_ids) ==
    IF policy.id = NoAnn
    THEN [error |-> "ValueError", message |-> "missing required @id annotation", warned |-> FALSE]
    ELSE [error |-> None, message |-> NA, warned |-> policy.id \in seen_ids]

\* CheckPolicy where a missing @id is tolerated and a duplicate @id is fatal.
CheckPolicy_DuplicateFatal(policy, seen_ids) ==
    IF policy.id # NoAnn /\ policy.id \in seen_ids
    THEN [error |-> "ValueError", message |-> "duplicate @id", warned |-> TRUE]
    ELSE IF policy.escalate # NoAnn /\ policy.effect # "Forbid"
         THEN [error |-> "ValueError", message |-> "@escalate is only valid on forbid policies",
               warned |-> FALSE]
         ELSE [error |-> None, message |-> NA, warned |-> FALSE]

\* One iteration of the loop over policy_set.policies(): the exception it
\* raises (None when the loop goes on) and whether it logged the
\* duplicate-@id warning.
CheckPolicy(policy, seen_ids) ==
    IF policy.id = NoAnn
    THEN [error |-> "ValueError", message |-> "missing required @id annotation", warned |-> FALSE]
    ELSE IF policy.escalate # NoAnn /\ policy.effect # "Forbid"
         THEN [error |-> "ValueError", message |-> "@escalate is only valid on forbid policies",
               warned |-> policy.id \in seen_ids]
         ELSE [error |-> None, message |-> NA, warned |-> policy.id \in seen_ids]

RECURSIVE ValidateFrom(_, _, _, _)
ValidateFrom(ps, i, seen_ids, warnings) ==
    IF i > Len(ps)
    THEN [error |-> None, message |-> NA, warnings |-> warnings]
    ELSE LET c == CheckPolicy(ps[i], seen_ids)
             w == IF c.warned THEN Append(warnings, ps[i].id) ELSE warnings
         IN IF c.error # None
            THEN [error |-> c.error, message |-> c.message, warnings |-> w]
            ELSE ValidateFrom(ps, i + 1, seen_ids \cup {ps[i].id}, w)

\* The whole loop over the policies as policies() yields them: the exception
\* of the constructor and the warnings logged.
ValidatePolicies(ps) == ValidateFrom(ps, 1, {}, <<>>)

\* policy_set.policies(): the policies of the set, in the given order.
policies(ps, order) == [k \in 1..Len(ps) |-> ps[order[k]]]

(***************************************************************************)
(* The evaluator (cedar.Authorizer), as the harness uses it.               *)
(***************************************************************************)
\* The authorizer attribute: None, or the entity store built by
\* _build_authorizer (the Trajectory entity with its step_count, the Agent
\* entity when an agent is set, the Message entities added since).
NoAuthorizer == [kind |-> "none", trajectory |-> None, step_count |-> 0, agent |-> None, messages |-> 0]

NoRequest == [action |-> NA, resource_type |-> NA, resource_id |-> NA]
NoResponse == [decision |-> NA, reason |-> <<>>]

\* Does the policy's scope and when-clause hold of the request?
Satisfied(policy, request, entities) ==
    CASE policy.when = "always" -> TRUE
      [] policy.when = "rate" -> /\ request.resource_type = "Trajectory"
                                 /\ request.resource_id = entities.trajectory
                                 /\ entities.step_count > Limit

Matching(effect, request, ps, entities) ==
    {i \in DOMAIN ps : ps[i].effect = effect /\ Satisfied(ps[i], request, entities)}

\* Authorizer.is_authorized: forbid overrides permit, no match is Deny; the
\* reason lists the determining policies in an order the evaluator chooses.
is_authorized(request, ps, entities) ==
    LET forbids == Matching("Forbid", request, ps, entities)
        permits == Matching("Permit", request, ps, entities)
    IN IF forbids # {}
       THEN {[decision |-> "Deny", reason |-> o] : o \in Orders(forbids)}
       ELSE IF permits # {}
            THEN {[decision |-> "Allow", reason |-> o] : o \in Orders(permits)}
            ELSE {[decision |-> "Deny", reason |-> <<>>]}

(***************************************************************************)
(* The merge rule: _convert_cedar_response_to_adjudication.                *)
(***************************************************************************)
\* PolicyMetadata that drops the argument of @escalate.
PolicyMetadata_NoArg(policy) ==
    [id |-> policy.id,
     description |-> "",
     escalate |-> policy.escalate # NoAnn,
     escalate_arg |-> "",
     custom |-> <<>>]

PolicyMetadata(policy) ==
    [id |-> policy.id,
     description |-> "",
     escalate |-> policy.escalate # NoAnn,
     escalate_arg |-> IF policy.escalate = NoAnn THEN "" ELSE policy.escalate,
     custom |-> <<>>]

\* The merge rule failing open when nothing matched.
convert_DefaultAllow(response, ps) ==
    LET metadata == [k \in 1..Len(response.reason) |-> PolicyMetadata(ps[response.reason[k]])]
        IsEscalate(m) == m.escalate
        IsNotEscalate(m) == ~m.escalate
        escalate_policies == SelectSeq(metadata, IsEscalate)
        non_escalate_policies == SelectSeq(metadata, IsNotEscalate)
    IN IF response.decision = "Allow"
       THEN Return("ALLOW", "Allowed by all policies", non_escalate_policies)
       ELSE IF non_escalate_policies # <<>>
            THEN Return("DENY", "Denied by policies", non_escalate_policies)
            ELSE IF escalate_policies # <<>>
                 THEN Return("ESCALATE", "Escalated by policies", escalate_policies)
                 ELSE Return("ALLOW", "Allowed by all policies", <<>>)

\* The merge rule reporting every determining policy on a hard denial.
convert_DenyListsAll(response, ps) ==
    LET metadata == [k \in 1..Len(response.reason) |-> PolicyMetadata(ps[response.reason[k]])]
        IsEscalate(m) == m.escalate
        IsNotEscalate(m) == ~m.escalate
        escalate_policies == SelectSeq(metadata, IsEscalate)
        non_escalate_policies == SelectSeq(metadata, IsNotEscalate)
    IN IF response.decision = "Allow"
       THEN Return("ALLOW", "Allowed by all policies", non_escalate_policies)
       ELSE IF non_escalate_policies # <<>>
            THEN Return("DENY", "Denied by policies", metadata)
            ELSE IF escalate_policies # <<>>
                 THEN Return("ESCALATE", "Escalated by policies", escalate_policies)
                 ELSE Return("DENY", "No matching permit policy", <<>>)

\* The merge rule skipping the identifiers it cannot resolve.
convert_SkipUnresolved(response, ps) ==
    LET InStore(i) == i \in DOMAIN ps
        resolved == SelectSeq(response.reason, InStore)
        metadata == [k \in 1..Len(resolved) |-> PolicyMetadata(ps[resolved[k]])]
        IsEscalate(m) == m.escalate
        IsNotEscalate(m) == ~m.escalate
        escalate_policies == SelectSeq(metadata, IsEscalate)
        non_escalate_policies == SelectSeq(metadata, IsNotEscalate)
    IN IF response.decision = "Allow"
       THEN Return("ALLOW", "Allowed by all policies", non_escalate_policies)
       ELSE IF non_escalate_policies # <<>>
            THEN Return("DENY", "Denied by policies", non_escalate_policies)
            ELSE IF escalate_policies # <<>>
                 THEN Return("ESCALATE", "Escalated by policies", escalate_policies)
                 ELSE Return("DENY", "No matching permit policy", <<>>)

\* The merge rule returning an escalation without the policies behind it.
convert_EscalateUnlisted(response, ps) ==
    IF \E k \in 1..Len(response.reason) : response.reason[k] \notin DOMAIN ps
    THEN Raise("RuntimeError", "Policy not found in policy set")
    ELSE LET metadata == [k \in 1..Len(response.reason) |-> PolicyMetadata(ps[response.reason[k]])]
             IsEscalate(m) == m.escalate
             IsNotEscalate(m) == ~m.escalate
             escalate_policies == SelectSeq(metadata, IsEscalate)
             non_escalate_policies == SelectSeq(metadata, IsNotEscalate)
         IN IF response.decision = "Allow"
            THEN Return("ALLOW", "Allowed by all policies", non_escalate_policies)
            ELSE IF non_escalate_policies # <<>>
                 THEN Return("DENY", "Denied by policies", non_escalate_policies)
                 ELSE IF escalate_policies # <<>>
                      THEN Return("ESCALATE", "Escalated by policies", <<>>)
                      ELSE Return("DENY", "No matching permit policy", <<>>)

convert_cedar_response_to_adjudication(response, ps) ==
    IF \E k \in 1..Len(response.reason) : response.reason[k] \notin DOMAIN ps
    THEN Raise("RuntimeError", "Policy not found in policy set")
    ELSE LET metadata == [k \in 1..Len(response.reason) |-> PolicyMetadata(ps[response.reason[k]])]
             IsEscalate(m) == m.escalate
             IsNotEscalate(m) == ~m.escalate
             escalate_policies == SelectSeq(metadata, IsEscalate)
             non_escalate_policies == SelectSeq(metadata, IsNotEscalate)
         IN IF response.decision = "Allow"
            THEN Return("ALLOW", "Allowed by all policies", non_escalate_policies)
            ELSE IF non_escalate_policies # <<>>
                 THEN Return("DENY", "Denied by policies", non_escalate_policies)
                 ELSE IF escalate_policies # <<>>
                      THEN Return("ESCALATE", "Escalated by policies", escalate_policies)
                      ELSE Return("DENY", "No matching permit policy", <<>>)


(***************************************************************************)
(* State of one CedarPolicyHarness.                                        *)
(***************************************************************************)
VARIABLES
    policy_set,             \* self._policy_set, as given to the constructor
    load_error,             \* the exception raised by __init__ (None: constructed)
    warnings,               \* the duplicate-@id warnings logged by __init__
    agent,                  \* self._agent
    trajectory_id,          \* self._trajectory_id
    trajectory_step_count,  \* self._trajectory_step_count
    authorizer,             \* self._authorizer
    uuid_count,             \* number of trajectory ids drawn from uuid.uuid4()
    calls,                  \* adjudicate calls accepted since the last initialize
    last,                   \* the last call on the harness and its outcome
    remote_agent,           \* SonderaRemoteHarness._agent
    remote_trajectory_id,   \* SonderaRemoteHarness._trajectory_id
    service,                \* the trajectories kept by the Sondera Harness Service
    remote_last,            \* the last call on the remote harness and its outcome
    descriptor,             \* the Agent handed to agent_to_cedar_schema
    synthesized,            \* what the calls of agent_to_cedar_schema returned, in order
    context,                \* the context the last tool request or response was built with
    json_schema,            \* the JSON schema handed to json_schema_to_cedar_type
    cedar_type,             \* what json_schema_to_cedar_type returned for it
    tasks,                  \* the adjudicate coroutines scheduled on the event loop
    runs,                   \* the agent runs sharing one CedarPolicyHarness
    caller,                 \* the run that made the last call on the shared harness
    harness,                \* the Harness held by the adapters
    event                   \* what the adapter callback that was called has done

cedar_vars == <<policy_set, load_error, warnings, agent, trajectory_id,
                trajectory_step_count, authorizer, uuid_count, calls, last>>
remote_vars == <<remote_agent, remote_trajectory_id, service, remote_last>>
schema_vars == <<descriptor, synthesized, context, json_schema, cedar_type>>
task_vars == <<tasks>>
run_vars == <<runs, caller>>
\* The state of those who call a harness: a harness method leaves it alone.
adapter_vars == <<harness, event>>
caller_vars == <<task_vars, run_vars, adapter_vars>>

vars == <<cedar_vars, remote_vars, schema_vars, caller_vars>>

\* The attributes of the harness object (what a failed call must not touch).
harness_state == <<policy_set, agent, trajectory_id, trajectory_step_count, authorizer>>

\* f"traj-{uuid.uuid4()}": the k-th identifier drawn is fresh.
TrajectoryName(k) == "traj-" \o ToString(k)

CallRecord(op, stage, kind, request, response, evaluated, observed, call_no, outcome) ==
    [op |-> op, stage |-> stage, kind |-> kind, request |-> request, response |-> response,
     evaluated |-> evaluated, observed |-> observed, call_no |-> call_no,
     error |-> outcome.error, message |-> outcome.message, decision |-> outcome.decision,
     reason |-> outcome.reason, policies |-> outcome.policies]

LifecycleRecord(op, outcome) ==
    CallRecord(op, NA, NA, NoRequest, NoResponse, FALSE, 0, 0, outcome)

\* CedarPolicyHarness(policy_set=ps, schema=schema, agent=ag)
CedarInit ==
    \E ps \in PolicySets, ag \in Agents \cup {None} : \E order \in Orders(DOMAIN ps) :
        LET v == ValidatePolicies(policies(ps, order))
        IN /\ policy_set = ps
           /\ load_error = v.error
           /\ warnings = v.warnings
           /\ agent = ag
           /\ trajectory_id = None
           /\ trajectory_step_count = 0
           /\ authorizer = NoAuthorizer
           /\ uuid_count = 0
           /\ calls = 0
           /\ last = LifecycleRecord("__init__", Raise(v.error, v.message))

\* No CedarPolicyHarness is in use: one built over no policy and never called.
NoCedarHarness ==
    /\ policy_set = <<>>
    /\ load_error = None
    /\ warnings = <<>>
    /\ agent = None
    /\ trajectory_id = None
    /\ trajectory_step_count = 0
    /\ authorizer = NoAuthorizer
    /\ uuid_count = 0
    /\ calls = 0
    /\ last = LifecycleRecord("__init__", Returned)

\* _build_authorizer, with the agent and trajectory it is called for.
build_authorizer(ag, tid, step_count) ==
    [kind |-> "cedar", trajectory |-> tid, step_count |-> step_count, agent |-> ag, messages |-> 0]

\* initialize(agent=ag)
Initialize(ag) ==
    /\ load_error = None
    /\ uuid_count < MaxTrajectories
    /\ LET new_agent == IF ag # None THEN ag ELSE agent
           new_id == TrajectoryName(uuid_count + 1)
       IN /\ agent' = new_agent
          /\ trajectory_id' = new_id
          /\ trajectory_step_count' = 0
          /\ authorizer' = build_authorizer(new_agent, new_id, 0)
    /\ uuid_count' = uuid_count + 1
    /\ calls' = 0
    /\ last' = LifecycleRecord("initialize", Returned)
    /\ UNCHANGED <<policy_set, load_error, warnings>>
    /\ UNCHANGED <<remote_vars, schema_vars>>

\* resume returning without an error.
resume_SilentNoOp(tid, step_count) ==
    [trajectory_id |-> tid, trajectory_step_count |-> step_count, outcome |-> Returned]

\* What resume does to (trajectory_id, trajectory_step_count), and its outcome:
\* the body is the raise alone.
resume(tid, step_count) ==
    [trajectory_id |-> tid, trajectory_step_count |-> step_count,
     outcome |-> Raise("NotImplementedError", "Resuming trajectories is not supported")]

\* resume(trajectory_id, agent=ag)
Resume ==
    /\ load_error = None
    /\ LET r == resume(trajectory_id, trajectory_step_count)
       IN /\ trajectory_id' = r.trajectory_id
          /\ trajectory_step_count' = r.trajectory_step_count
          /\ last' = LifecycleRecord("resume", r.outcome)
    /\ UNCHANGED <<policy_set, load_error, warnings, agent, authorizer, uuid_count, calls>>
    /\ UNCHANGED <<remote_vars, schema_vars>>

\* finalize clearing the trajectory id and leaving the counter.
finalize_KeepsCount(tid, step_count) ==
    IF tid = None
    THEN [trajectory_id |-> tid, trajectory_step_count |-> step_count,
          outcome |-> Raise("ValueError", "No active trajectory. Call initialize first.")]
    ELSE [trajectory_id |-> None, trajectory_step_count |-> step_count, outcome |-> Returned]

\* What finalize does to (trajectory_id, trajectory_step_count), and its outcome.
finalize(tid, step_count) ==
    IF tid = None
    THEN [trajectory_id |-> tid, trajectory_step_count |-> step_count,
          outcome |-> Raise("ValueError", "No active trajectory. Call initialize first.")]
    ELSE [trajectory_id |-> None, trajectory_step_count |-> 0, outcome |-> Returned]

Finalize ==
    /\ load_error = None
    /\ LET f == finalize(trajectory_id, trajectory_step_count)
       IN /\ trajectory_id' = f.trajectory_id
          /\ trajectory_step_count' = f.trajectory_step_count
          /\ last' = LifecycleRecord("finalize", f.outcome)
    /\ UNCHANGED <<policy_set, load_error, warnings, agent, authorizer, uuid_count, calls>>
    /\ UNCHANGED <<remote_vars, schema_vars>>


(***************************************************************************)
(* adjudicate(stage, role, content)                                        *)
(***************************************************************************)
\* The precondition test without the trajectory id.
not_initialized_IgnoresTrajectory(ag, tid, auth) == ag = None \/ auth.kind = "none"

\* The precondition test: "not self._agent or not self._trajectory_id or
\* not self._authorizer".
not_initialized(ag, tid, auth) == ag = None \/ tid = None \/ auth.kind = "none"

\* A counter that advances by more than the one call.
next_step_count_Skips(step_count) == step_count + 2

\* self._trajectory_step_count += 1
next_step_count(step_count) == step_count + 1

\* upsert_entity storing the count as it was before the increment.
upsert_entity_BeforeIncrement(auth, tid, step_count) ==
    IF auth.kind = "mock" THEN auth
    ELSE [auth EXCEPT !.trajectory = tid, !.step_count = step_count - 1]

\* upsert_entity that leaves the Trajectory entity as _build_authorizer made it.
upsert_entity_Stale(auth, tid, step_count) == auth

\* authorizer.upsert_entity(Entity(trajectory_uid, {"step_count": n})); a
\* substituted (mock) authorizer keeps no entities.
upsert_entity(auth, tid, step_count) ==
    IF auth.kind = "mock" THEN auth
    ELSE [auth EXCEPT !.trajectory = tid, !.step_count = step_count]

\* authorizer.add_entity(message)
add_entity(auth) ==
    IF auth.kind = "mock" THEN auth
    ELSE [auth EXCEPT !.messages = @ + 1]

\* The match sending prompt content to the evaluator at every stage.
route_PromptAtAnyStage(stage, kind) ==
    CASE kind = "PromptContent" -> "message"
      [] stage = "PRE_TOOL" /\ kind = "ToolRequestContent" -> "tool_request"
      [] stage = "POST_TOOL" /\ kind = "ToolResponseContent" -> "tool_response"
      [] OTHER -> "default"

\* The match on (stage, content).
route(stage, kind) ==
    CASE stage \in {"PRE_MODEL", "POST_MODEL"} /\ kind = "PromptContent" -> "message"
      [] stage = "PRE_TOOL" /\ kind = "ToolRequestContent" -> "tool_request"
      [] stage = "POST_TOOL" /\ kind = "ToolResponseContent" -> "tool_response"
      [] OTHER -> "default"

\* The role is an attribute of the new Message entity and not of the request.
message_request(tid) ==
    [action |-> "Prompt", resource_type |-> "Message", resource_id |-> "message"]

tool_request(tid, tool_id) ==
    [action |-> Sanitize(tool_id), resource_type |-> "Trajectory", resource_id |-> tid]

tool_response(tid, tool_id) ==
    [action |-> Sanitize(tool_id), resource_type |-> "Trajectory", resource_id |-> tid]

\* Responses a substituted authorizer may give: any effect, with up to
\* MockReasonLen identifiers, each the first one of the policy set or one
\* that the policy set does not hold.
MockReasonLen == 1
MockResponses(ps) ==
    [decision : {"Allow", "Deny"},
     reason : UNION {[1..n -> {1, Len(ps) + 1}] : n \in 0..MockReasonLen}]

Responses(request, ps, entities) ==
    IF entities.kind = "mock" THEN MockResponses(ps) ELSE is_authorized(request, ps, entities)

\* The call record keeps the stage and content of a call that read them.
Adjudicate(stage, kind, tool_id) ==
    /\ load_error = None
    /\ trajectory_step_count < MaxSteps
    /\ IF not_initialized(agent, trajectory_id, authorizer)
       THEN /\ last' = CallRecord("adjudicate", NA, NA, NoRequest, NoResponse, FALSE, 0, 0,
                           Raise("RuntimeError", "initialize() must be called before adjudicate()."))
            /\ UNCHANGED <<trajectory_step_count, authorizer, calls>>
       ELSE LET count == next_step_count(trajectory_step_count)
                upserted == upsert_entity(authorizer, trajectory_id, count)
                r == route(stage, kind)
                entities == IF r = "message" THEN add_entity(upserted) ELSE upserted
            IN /\ trajectory_step_count' = count
               /\ calls' = calls + 1
               /\ authorizer' = entities
               /\ IF r = "default"
                  THEN last' = CallRecord("adjudicate", stage, kind, NoRequest, NoResponse, FALSE,
                                   entities.step_count, calls + 1,
                                   Return("ALLOW", "Non-tool content allowed by default", <<>>))
                  ELSE LET request == CASE r = "message" -> message_request(trajectory_id)
                                        [] r = "tool_request" -> tool_request(trajectory_id, tool_id)
                                        [] OTHER -> tool_response(trajectory_id, tool_id)
                       IN \E response \in Responses(request, policy_set, entities) :
                              last' = CallRecord("adjudicate", stage, kind, request, response, TRUE,
                                          entities.step_count, calls + 1,
                                          convert_cedar_response_to_adjudication(response, policy_set))
    /\ UNCHANGED <<policy_set, load_error, warnings, agent, trajectory_id, uuid_count>>
    /\ UNCHANGED <<remote_vars, schema_vars>>

\* harness._authorizer = mock_authorizer (tests/cedar/test_cedar_policy.py):
\* the evaluator drifts out of sync with the policy store.
MockAuthorizer ==
    /\ load_error = None
    /\ authorizer.kind = "cedar"
    /\ authorizer' = [authorizer EXCEPT !.kind = "mock"]
    /\ last' = LifecycleRecord("mock", Returned)
    /\ UNCHANGED <<policy_set, load_error, warnings, agent, trajectory_id,
                   trajectory_step_count, uuid_count, calls>>
    /\ UNCHANGED <<remote_vars, schema_vars>>

(***************************************************************************)
(* SonderaRemoteHarness: the harness backed by the Sondera Harness         *)
(* Service.  The service is reached over gRPC: each call either does what  *)
(* the request says or fails with an AioRpcError.                          *)
(***************************************************************************)
RemoteAgents == {"agent", "other"}
TrajectoryNames == {TrajectoryName(k) : k \in 1..MaxTrajectories}
CreatedStatuses == {"pending", "running"}

\* The position of a trajectory in the service (0: the service has none such).
IndexOf(tid, trajectories) ==
    IF \E k \in DOMAIN trajectories : TrajectoryName(k) = tid
    THEN CHOOSE k \in DOMAIN trajectories : TrajectoryName(k) = tid
    ELSE 0

\* One call on the remote harness: the operation, the exception it ended in
\* and the active trajectory id as it was when the call began.
RemoteRecord(op, error, before) == [op |-> op, error |-> error, before |-> before]

\* SonderaRemoteHarness(agent=ag, sondera_api_key=key)
RemoteInit ==
    \E ag \in RemoteAgents \cup {None} :
        /\ remote_agent = ag
        /\ remote_trajectory_id = None
        /\ service = <<>>
        /\ remote_last = RemoteRecord("__init__", None, None)

\* No SonderaRemoteHarness is in use.
NoRemoteHarness ==
    /\ remote_agent = None
    /\ remote_trajectory_id = None
    /\ service = <<>>
    /\ remote_last = RemoteRecord("__init__", None, None)

\* The agent a call works with: "if agent: self._agent = agent".
agent_or_own(ag, own) == IF ag # None THEN ag ELSE own

\* CreateTrajectory on the service; finalized_steps is the number of steps the
\* trajectory held when finalize completed for it (-1: never finalized).
create_trajectory(trajectories, agent_id, status) ==
    Append(trajectories,
           [agent_id |-> agent_id, status |-> status, steps |-> 0, finalized_steps |-> -1])

\* UpdateTrajectoryStatus on the service.
update_trajectory_status(trajectories, k, status) ==
    [trajectories EXCEPT ![k].status = status]

\* AddTrajectoryStep on the service.
add_trajectory_step(trajectories, k) ==
    [trajectories EXCEPT ![k].steps = @ + 1]

\* initialize(agent=ag); rpc tells whether the calls to the service succeed.
RemoteInitialize(ag, rpc, status) ==
    LET a == agent_or_own(ag, remote_agent)
    IN /\ remote_agent' = a
       /\ IF a = None
          THEN /\ remote_last' = RemoteRecord("initialize", "AssertionError", remote_trajectory_id)
               /\ UNCHANGED <<remote_trajectory_id, service>>
          ELSE IF rpc # "ok"
          THEN /\ remote_last' = RemoteRecord("initialize", "AioRpcError", remote_trajectory_id)
               /\ UNCHANGED <<remote_trajectory_id, service>>
          ELSE /\ Len(service) < MaxTrajectories
               /\ service' = create_trajectory(service, a, status)
               /\ remote_trajectory_id' = TrajectoryName(Len(service) + 1)
               /\ remote_last' = RemoteRecord("initialize", None, remote_trajectory_id)
       /\ UNCHANGED <<cedar_vars, schema_vars, caller_vars>>

\* What resume does to _trajectory_id and to the service, and the exception it
\* ends in: "self._trajectory_id = trajectory.id" comes before the ownership
\* check and before the status update.
resume_remote(tid, a, active, trajectories, rpc) ==
    LET k == IndexOf(tid, trajectories)
        Raised(id, error) == [trajectory_id |-> id, service |-> trajectories, error |-> error]
    IN CASE active # None -> Raised(active, "RuntimeError")
         [] a = None -> Raised(active, "AssertionError")
         [] rpc = "get_fails" -> Raised(active, "AioRpcError")
         [] k = 0 -> Raised(active, "TrajectoryError")
         [] trajectories[k].agent_id # a -> Raised(tid, "TrajectoryError")
         [] rpc = "update_fails" -> Raised(tid, "AioRpcError")
         [] OTHER -> [trajectory_id |-> tid, error |-> None,
                      service |-> update_trajectory_status(trajectories, k, "running")]

\* resume(trajectory_id, agent=ag); the agent is assigned once no trajectory
\* is active.
RemoteResume(tid, ag, rpc) ==
    LET a == IF remote_trajectory_id # None THEN remote_agent
             ELSE agent_or_own(ag, remote_agent)
        r == resume_remote(tid, a, remote_trajectory_id, service, rpc)
    IN /\ remote_agent' = a
       /\ remote_trajectory_id' = r.trajectory_id
       /\ service' = r.service
       /\ remote_last' = RemoteRecord("resume", r.error, remote_trajectory_id)
       /\ UNCHANGED <<cedar_vars, schema_vars, caller_vars>>

\* finalize()
RemoteFinalize(rpc) ==
    LET k == IndexOf(remote_trajectory_id, service)
    IN /\ IF remote_trajectory_id = None
          THEN /\ remote_last' = RemoteRecord("finalize", "TrajectoryNotInitializedError",
                                              remote_trajectory_id)
               /\ UNCHANGED <<remote_trajectory_id, service>>
          ELSE IF rpc # "ok"
          THEN /\ remote_last' = RemoteRecord("finalize", "AioRpcError", remote_trajectory_id)
               /\ UNCHANGED <<remote_trajectory_id, service>>
          ELSE /\ service' = [update_trajectory_status(service, k, "completed")
                                 EXCEPT ![k].finalized_steps = service[k].steps]
               /\ remote_trajectory_id' = None
               /\ remote_last' = RemoteRecord("finalize", None, remote_trajectory_id)
       /\ UNCHANGED <<remote_agent, cedar_vars, schema_vars, caller_vars>>

\* adjudicate(stage, role, content): the service appends the step to the
\* trajectory and adjudicates it.
RemoteAdjudicate(rpc) ==
    LET k == IndexOf(remote_trajectory_id, service)
    IN /\ IF remote_trajectory_id = None
          THEN /\ remote_last' = RemoteRecord("adjudicate", "RuntimeError", remote_trajectory_id)
               /\ UNCHANGED service
          ELSE IF rpc # "ok"
          THEN /\ remote_last' = RemoteRecord("adjudicate", "AioRpcError", remote_trajectory_id)
               /\ UNCHANGED service
          ELSE /\ service[k].steps < MaxSteps
               /\ service' = add_trajectory_step(service, k)
               /\ remote_last' = RemoteRecord("adjudicate", None, remote_trajectory_id)
       /\ UNCHANGED <<remote_agent, remote_trajectory_id, cedar_vars, schema_vars, caller_vars>>

(***************************************************************************)
(* Schema synthesis (cedar/schema.py).  A JSON schema text is modelled by  *)
(* the value json.loads gives for it; an optional value is a sequence of   *)
(* length 0 or 1.                                                          *)
(***************************************************************************)
\* Nesting depth of the JSON schemas converted on their own.
MaxDepth == 2
\* Number of tools of an agent.
MaxTools == 2

Missing == "missing"
\* The values of "type": absent, the five kinds the conversion knows (one of
\* them also in upper case) and one it does not know.
JsonTypes == {Missing, "object", "OBJECT", "array", "string", "integer", "boolean",
              "custom_type"}
ObjectTypes == {Missing, "object", "OBJECT"}
PropNames == {"a"}

\* A JSON schema node; dict is FALSE for a value that is not a JSON object.
Node(type, properties, required, items) ==
    [dict |-> TRUE, type |-> type, properties |-> properties, required |-> required,
     items |-> items]
Leaf(type) == Node(type, <<>>, {}, <<>>)
NotADict == [dict |-> FALSE, type |-> Missing, properties |-> <<>>, required |-> {},
             items |-> <<>>]

RECURSIVE JsonSchemas(_)
JsonSchemas(depth) ==
    IF depth = 0
    THEN {Leaf(type) : type \in JsonTypes} \cup {NotADict}
    ELSE LET below == JsonSchemas(depth - 1)
         IN below
            \cup {Node(type, [n \in PropNames |-> sub], required, <<>>) :
                      type \in ObjectTypes, sub \in below, required \in SUBSET PropNames}
            \cup {Node("array", <<>>, {}, <<sub>>) : sub \in below}

\* str.lower() on the values of "type".
Lower(type) == IF type = "OBJECT" THEN "object" ELSE type

\* SchemaType(type=..., attributes=..., element=..., required=...)
SchemaType(type, attributes, element, required) ==
    [type |-> type, attributes |-> attributes, element |-> element, required |-> required]
Simple(type) == SchemaType(type, <<>>, <<>>, "unset")

\* json_schema_to_cedar_type
RECURSIVE json_schema_to_cedar_type(_)
json_schema_to_cedar_type(schema) ==
    IF ~schema.dict
    THEN Simple("String")
    ELSE LET json_type == Lower(IF schema.type = Missing THEN "object" ELSE schema.type)
         IN CASE json_type = "object" ->
                     SchemaType("Record",
                                [n \in DOMAIN schema.properties |->
                                     LET t == json_schema_to_cedar_type(schema.properties[n])
                                     IN IF n \notin schema.required
                                        THEN [t EXCEPT !.required = "false"]
                                        ELSE t],
                                <<>>, "unset")
              [] json_type = "array" ->
                     SchemaType("Set", <<>>,
                                <<json_schema_to_cedar_type(
                                      IF schema.items = <<>> THEN Leaf(Missing)
                                      ELSE schema.items[1])>>,
                                "unset")
              [] json_type = "string" -> Simple("String")
              [] json_type \in {"number", "integer"} -> Simple("Long")
              [] json_type = "boolean" -> Simple("Boolean")
              [] OTHER -> Simple("String")

\* openai_json_schema_to_cedar_type: nothing for None or the empty text.
openai_json_schema_to_cedar_type(json_schema_str) ==
    IF json_schema_str = <<>> THEN <<>>
    ELSE <<json_schema_to_cedar_type(json_schema_str[1])>>

\* dict[key] = value
Assign(dict, key, value) ==
    [k \in DOMAIN dict \cup {key} |-> IF k = key THEN value ELSE dict[k]]

\* The typed context attribute tool_to_action derives from one JSON schema:
\* the record itself when it has attributes, {value: <type>} otherwise.
typed_attribute(json_schema_str) ==
    LET t == openai_json_schema_to_cedar_type(json_schema_str)
    IN IF t = <<>> THEN <<>>
       ELSE IF t[1].type = "Record" /\ DOMAIN t[1].attributes # {}
       THEN <<[t[1] EXCEPT !.required = "false"]>>
       ELSE <<SchemaType("Record", [n \in {"value"} |-> t[1]], <<>>, "false")>>

\* tool_to_action
tool_to_action(tool) ==
    LET fallback == SchemaType("String", <<>>, <<>>, "false")
        parameters == typed_attribute(tool.parameters_json_schema)
        response == typed_attribute(tool.response_json_schema)
        a1 == IF parameters = <<>> THEN <<>> ELSE Assign(<<>>, "parameters", parameters[1])
        a2 == Assign(a1, "parameters_json", fallback)
        a3 == IF response = <<>> THEN a2 ELSE Assign(a2, "response", response[1])
        a4 == Assign(a3, "response_json", fallback)
    IN [principalTypes |-> <<"Agent">>, resourceTypes |-> <<"Trajectory">>,
        context |-> <<SchemaType("Record", a4, <<>>, "unset")>>]

\* The fixed action of prompts.
PromptAction ==
    [principalTypes |-> <<"Agent">>, resourceTypes |-> <<"Message">>, context |-> <<>>]

\* The loop "for tool in agent.tools: actions[action_name] = tool_to_action(tool)".
RECURSIVE ActionsFrom(_, _, _)
ActionsFrom(tools, i, actions) ==
    IF i > Len(tools) THEN actions
    ELSE ActionsFrom(tools, i + 1, Assign(actions, Sanitize(tools[i].name), tool_to_action(tools[i])))

\* agent_to_cedar_schema; the entity types are the same five for every agent.
agent_to_cedar_schema(ag) ==
    [namespace |-> Sanitize(ag.name),
     entityTypes |-> {"Agent", "Tool", "Role", "Message", "Trajectory"},
     actions |-> Assign(ActionsFrom(ag.tools, 1, <<>>), "Prompt", PromptAction)]

\* What agent_to_cedar_schema leaves of the Agent it was given: it reads
\* agent.name and agent.tools and assigns to neither.
after_synthesis_SanitizesInPlace(ag) ==
    [ag EXCEPT !.tools = [i \in DOMAIN ag.tools |->
                              [ag.tools[i] EXCEPT !.name = Sanitize(ag.tools[i].name)]]]

after_synthesis(ag) == ag

\* The agents of the model.  An agent with one tool carries any pair of
\* top-level schemas of which one is absent or both are the same; the tools of
\* an agent with several carry at most a parameters schema.
ToolNames == {"exec-cmd", "exec cmd", "Prompt"}
AgentNames == {"Test Agent"}
Tool(name, parameters_json_schema, response_json_schema) ==
    [name |-> name, parameters_json_schema |-> parameters_json_schema,
     response_json_schema |-> response_json_schema]
TopLevelSchemas ==
    {Leaf(type) : type \in JsonTypes}
    \cup {Node(type, [n \in PropNames |-> Leaf("string")], required, <<>>) :
              type \in ObjectTypes, required \in SUBSET PropNames}
TypedTools ==
    {Tool(name, p, r) :
         name \in ToolNames,
         p \in {<<>>} \cup {<<s>> : s \in TopLevelSchemas},
         r \in {<<>>} \cup {<<s>> : s \in TopLevelSchemas}}
PlainTools ==
    {Tool(name, p, <<>>) :
         name \in ToolNames, p \in {<<>>, <<Node("object", [n \in PropNames |-> Leaf("string")], {}, <<>>)>>}}
AgentDescriptors ==
    {[name |-> name, tools |-> tools] :
         name \in AgentNames,
         tools \in {<<>>}
                   \cup {<<t>> : t \in {t \in TypedTools :
                                           \/ t.parameters_json_schema = <<>>
                                           \/ t.response_json_schema = <<>>
                                           \/ t.parameters_json_schema = t.response_json_schema}}
                   \cup UNION {[1..n -> PlainTools] : n \in 2..MaxTools}}

\* Number of times the schema of one agent is synthesized.
MaxSyntheses == 2

\* The context data built for one tool request or response: the action it is
\* validated against, whether the typed field ("parameters" or "response") was
\* inserted, and whether the value was inserted as {"value": ...}.
NoContext == [built |-> FALSE, field |-> NA, action |-> NA, typed |-> FALSE, wrapped |-> FALSE]
ContextData(field, action, typed, wrapped) ==
    [built |-> TRUE, field |-> field, action |-> action, typed |-> typed, wrapped |-> wrapped]

\* _tool_request: context_data["parameters"] = content.args when the agent has
\* a tool of that name with a parameters schema.
tool_request_context(ag, tool_id) ==
    ContextData("parameters", Sanitize(tool_id),
                \E i \in DOMAIN ag.tools :
                    /\ ag.tools[i].name = tool_id
                    /\ \A j \in 1..(i - 1) : ag.tools[j].name # tool_id
                    /\ ag.tools[i].parameters_json_schema # <<>>,
                FALSE)

\* self._tool_response_schemas, as _build_authorizer fills it.
RECURSIVE tool_response_schemas(_, _, _)
tool_response_schemas(tools, i, schemas) ==
    IF i > Len(tools) THEN schemas
    ELSE tool_response_schemas(tools, i + 1,
             IF tools[i].response_json_schema = <<>> THEN schemas
             ELSE Assign(schemas, tools[i].name, tools[i].response_json_schema[1]))

\* _tool_response: the response goes in as {"value": response} unless the
\* schema's "type" is "object" or "OBJECT".
tool_response_context(schemas, tool_id) ==
    ContextData("response", Sanitize(tool_id),
                tool_id \in DOMAIN schemas,
                tool_id \in DOMAIN schemas /\ schemas[tool_id].type \notin {"object", "OBJECT"})

\* No schema is being synthesized.
NoSynthesis ==
    /\ descriptor = [name |-> NA, tools |-> <<>>]
    /\ synthesized = <<>>
    /\ context = NoContext
    /\ json_schema = <<>>
    /\ cedar_type = <<>>

\* An agent whose schema is to be synthesized.
SchemaInit ==
    /\ descriptor \in AgentDescriptors
    /\ synthesized = <<>>
    /\ context = NoContext
    /\ json_schema = <<>>
    /\ cedar_type = <<>>

\* A JSON schema to be converted.
ConvertInit ==
    /\ descriptor = [name |-> NA, tools |-> <<>>]
    /\ synthesized = <<>>
    /\ context = NoContext
    /\ json_schema \in {<<s>> : s \in JsonSchemas(MaxDepth)}
    /\ cedar_type = <<>>

\* schema = agent_to_cedar_schema(agent)
Synthesize ==
    /\ Len(synthesized) < MaxSyntheses
    /\ synthesized' = Append(synthesized,
                             [agent |-> descriptor, schema |-> agent_to_cedar_schema(descriptor)])
    /\ descriptor' = after_synthesis(descriptor)
    /\ UNCHANGED <<context, json_schema, cedar_type, cedar_vars, remote_vars, caller_vars>>

\* The request of a PRE_TOOL adjudication for the agent.
BuildToolRequest(tool_id) ==
    /\ context' = tool_request_context(descriptor, tool_id)
    /\ UNCHANGED <<descriptor, synthesized, json_schema, cedar_type, cedar_vars, remote_vars, caller_vars>>

\* The request of a POST_TOOL adjudication for the agent.
BuildToolResponse(tool_id) ==
    /\ context' = tool_response_context(tool_response_schemas(descriptor.tools, 1, <<>>), tool_id)
    /\ UNCHANGED <<descriptor, synthesized, json_schema, cedar_type, cedar_vars, remote_vars, caller_vars>>

\* json_schema_to_cedar_type(schema)
Convert ==
    /\ json_schema # <<>>
    /\ cedar_type' = <<json_schema_to_cedar_type(json_schema[1])>>
    /\ UNCHANGED <<descriptor, synthesized, context, json_schema, cedar_vars, remote_vars, caller_vars>>

(***************************************************************************)
(* Concurrent adjudicate calls.  adjudicate is a coroutine: the calls that *)
(* a caller gathers run as tasks of one asyncio event loop, which runs one *)
(* task at a time and switches to another one only where the running task  *)
(* awaits.                                                                 *)
(***************************************************************************)
\* The number of calls gathered.
MaxTasks == 2

\* An await between the increment of the counter and its read for the entity.
suspension_points_AfterIncrement == {"incremented"}

\* The places of adjudicate's body at which an await stands: the body
\* holds none.
suspension_points == {}

Task(pc, observed, error) == [pc |-> pc, observed |-> observed, error |-> error]

NoTasks == tasks = <<>>

\* asyncio.gather(harness.adjudicate(...), ...) on an active trajectory.
Gather(k) ==
    /\ load_error = None
    /\ trajectory_id # None
    /\ tasks = <<>>
    /\ tasks' = [t \in 1..k |-> Task("pending", 0, None)]
    /\ UNCHANGED <<cedar_vars, remote_vars, schema_vars, run_vars, adapter_vars>>

\* The event loop runs task t up to its next await or to its end.
RunTask(t, stage, kind, tool_id) ==
    /\ t \in DOMAIN tasks
    /\ tasks[t].pc \in {"pending", "incremented"}
    /\ IF tasks[t].pc = "pending" /\ not_initialized(agent, trajectory_id, authorizer)
       THEN /\ tasks' = [tasks EXCEPT ![t] = Task("done", 0, "RuntimeError")]
            /\ last' = CallRecord("adjudicate", NA, NA, NoRequest, NoResponse, FALSE, 0, 0,
                           Raise("RuntimeError", "initialize() must be called before adjudicate()."))
            /\ UNCHANGED <<trajectory_step_count, authorizer, calls>>
       ELSE IF tasks[t].pc = "pending" /\ "incremented" \in suspension_points
            THEN /\ trajectory_step_count' = next_step_count(trajectory_step_count)
                 /\ tasks' = [tasks EXCEPT ![t] = Task("incremented", 0, None)]
                 /\ UNCHANGED <<authorizer, calls, last>>
            ELSE LET count == IF tasks[t].pc = "pending"
                              THEN next_step_count(trajectory_step_count)
                              ELSE trajectory_step_count
                     upserted == upsert_entity(authorizer, trajectory_id, count)
                     r == route(stage, kind)
                     entities == IF r = "message" THEN add_entity(upserted) ELSE upserted
                 IN /\ trajectory_step_count' = count
                    /\ calls' = calls + 1
                    /\ authorizer' = entities
                    /\ tasks' = [tasks EXCEPT ![t] = Task("done", entities.step_count, None)]
                    /\ IF r = "default"
                       THEN last' = CallRecord("adjudicate", stage, kind, NoRequest, NoResponse,
                                        FALSE, entities.step_count, calls + 1,
                                        Return("ALLOW", "Non-tool content allowed by default", <<>>))
                       ELSE LET request == CASE r = "message" -> message_request(trajectory_id)
                                             [] r = "tool_request" -> tool_request(trajectory_id, tool_id)
                                             [] OTHER -> tool_response(trajectory_id, tool_id)
                            IN \E response \in Responses(request, policy_set, entities) :
                                   last' = CallRecord("adjudicate", stage, kind, request, response,
                                               TRUE, entities.step_count, calls + 1,
                                               convert_cedar_response_to_adjudication(response, policy_set))
    /\ UNCHANGED <<policy_set, load_error, warnings, agent, trajectory_id, uuid_count>>
    /\ UNCHANGED <<remote_vars, schema_vars, run_vars, adapter_vars>>


(***************************************************************************)
(* Agent runs sharing one CedarPolicyHarness: each run calls initialize,   *)
(* adjudicate any number of times and finalize, and the calls of the runs  *)
(* interleave.                                                             *)
(***************************************************************************)
Runs == {"run-1", "run-2"}

\* What a run knows: where it stands, the trajectory its initialize
\* created and the number of adjudicate calls it has made since.
Run(pc, trajectory, adjudications) ==
    [pc |-> pc, trajectory |-> trajectory, adjudications |-> adjudications]

NoRuns ==
    /\ runs = <<>>
    /\ caller = None

RunsInit ==
    /\ runs = [r \in Runs |-> Run("created", None, 0)]
    /\ caller = None

RunInitialize(r, ag) ==
    /\ runs[r].pc = "created"
    /\ Initialize(ag)
    /\ runs' = [runs EXCEPT ![r] = Run("active", trajectory_id', 0)]
    /\ caller' = r
    /\ UNCHANGED <<task_vars, adapter_vars>>

RunAdjudicate(r, stage, kind, tool_id) ==
    /\ runs[r].pc = "active"
    /\ runs[r].adjudications < MaxSteps
    /\ Adjudicate(stage, kind, tool_id)
    /\ runs' = [runs EXCEPT ![r].adjudications = @ + 1]
    /\ caller' = r
    /\ UNCHANGED <<task_vars, adapter_vars>>

RunFinalize(r) ==
    /\ runs[r].pc = "active"
    /\ Finalize
    /\ runs' = [runs EXCEPT ![r].pc = "finalized"]
    /\ caller' = r
    /\ UNCHANGED <<task_vars, adapter_vars>>

(***************************************************************************)
(* The adapters (LangGraph middleware, SonderaGraph, ADK plugin, Strands   *)
(* hook) hold a Harness and call its four methods from the callbacks of    *)
(* the agent framework.  The adapters are written against the abstract     *)
(* Harness: initialize and resume set the active trajectory or raise,      *)
(* finalize clears it or raises, adjudicate returns an Adjudication or     *)
(* raises.                                                                 *)
(***************************************************************************)
\* The Adjudications a harness returns, by decision and reason.
Adjudications ==
    {Return("ALLOW", "Allowed by all policies", <<>>),
     Return("DENY", "Denied by policies", <<>>),
     Return("DENY", "No matching permit policy", <<>>),
     Return("ESCALATE", "Escalated by policies", <<>>)}

\* The outcome of a lifecycle method: the error raised (None when it
\* returned) and the state it leaves the harness in, its active trajectory
\* and the number of trajectories it has created.
Outcome(error, after) == [error |-> error, harness |-> after]

\* initialize(): a new trajectory becomes the active one, or the call raises.
harness_initialize(h) ==
    {Outcome(None, [trajectory_id |-> TrajectoryName(h.created + 1), created |-> h.created + 1]),
     Outcome("RuntimeError", h)}

\* resume(tid): the trajectory becomes the active one, or the call raises
\* (the remote harness may have assigned the trajectory id by then).
harness_resume(h, tid) ==
    {Outcome(None, [h EXCEPT !.trajectory_id = tid]),
     Outcome("RuntimeError", h),
     Outcome("TrajectoryError", [h EXCEPT !.trajectory_id = tid])}

\* finalize(): raises without an active trajectory; else clears it or raises.
harness_finalize(h) ==
    IF h.trajectory_id = None
    THEN {Outcome("ValueError", h)}
    ELSE {Outcome(None, [h EXCEPT !.trajectory_id = None]), Outcome("RuntimeError", h)}

\* adjudicate(stage, role, content): raises without an active trajectory;
\* else returns an Adjudication or raises.
harness_adjudicate(h) ==
    IF h.trajectory_id = None
    THEN {Raise("RuntimeError", "initialize() must be called before adjudicate().")}
    ELSE Adjudications \cup {Raise("RuntimeError", "adjudication failed")}

\* Adjudication.is_denied with ESCALATE counted as a denial.
is_denied_OrEscalated(adjudication) == adjudication.decision \in {"DENY", "ESCALATE"}

\* Adjudication.is_denied
is_denied(adjudication) == adjudication.decision = "DENY"

\* One call of a harness method made by a callback, with its outcome.
Call(op, stage, outcome) ==
    [op |-> op, stage |-> stage, error |-> outcome.error,
     decision |-> outcome.decision, reason |-> outcome.reason]

\* A lifecycle call has no stage and returns nothing.
LifecycleCall(op, outcome) ==
    [op |-> op, stage |-> NA, error |-> outcome.error, decision |-> NA, reason |-> NA]

\* What one callback did: the harness calls it made, how many times it
\* invoked the wrapped handler, whether it stopped the guarded action (tool
\* cancelled, run ended), the texts it put in place of content, one for each
\* denial it acted on (<<>>: the content is passed on as it is), the
\* exception it let out, the one it logged and the trajectory id it returned
\* as a state update; with them, the argument that decided its course and
\* the trajectory that was active when it was called.
Event(adapter, callback, strategy, harness_calls, handler, halted, substituted, raised, logged) ==
    [adapter |-> adapter, callback |-> callback, strategy |-> strategy,
     calls |-> harness_calls, handler |-> handler, halted |-> halted,
     substituted |-> substituted, raised |-> raised, logged |-> logged, updates |-> None,
     input |-> NA, active |-> harness.trajectory_id]

NoEvent ==
    [adapter |-> NA, callback |-> NA, strategy |-> NA, calls |-> <<>>, handler |-> 0,
     halted |-> FALSE, substituted |-> <<>>, raised |-> None, logged |-> None, updates |-> None,
     input |-> NA, active |-> None]

\* An f-string: the literal text followed by the reason.
Explain(text, reason) == <<text, reason>>

AdapterInit ==
    /\ harness = [trajectory_id |-> None, created |-> 0]
    /\ event = NoEvent

\* The framework takes what the callback returned; it calls the next
\* callback after that.
Handled ==
    /\ event # NoEvent
    /\ event' = NoEvent
    /\ UNCHANGED <<harness, cedar_vars, remote_vars, schema_vars, task_vars, run_vars>>


(***************************************************************************)
(* SonderaHarnessHook: the callbacks registered with a Strands agent.      *)
(* Each body is wrapped in try / except Exception, which logs the error.   *)
(***************************************************************************)
\* A callback that propagates what the harness raises.
strands_except_Reraises(error) == [raised |-> error, logged |-> error]

\* except Exception as e: self._log.error(...)
strands_except(error) == [raised |-> None, logged |-> error]

\* _on_before_invocation
on_before_invocation ==
    /\ event = NoEvent
    /\ harness.created < MaxTrajectories
    /\ \E o \in harness_initialize(harness) :
           /\ harness' = o.harness
           /\ event' = IF o.error # None
                       THEN Event("strands", "on_before_invocation", NA, <<LifecycleCall("initialize", o)>>, 0, FALSE, <<>>,
                                  strands_except(o.error).raised, strands_except(o.error).logged)
                       ELSE Event("strands", "on_before_invocation", NA,
                                <<LifecycleCall("initialize", o)>>, 0, FALSE, <<>>, None, None)
    /\ UNCHANGED <<cedar_vars, remote_vars, schema_vars, task_vars, run_vars>>

\* _on_after_invocation
on_after_invocation ==
    /\ event = NoEvent
    /\ \E o \in harness_finalize(harness) :
           /\ harness' = o.harness
           /\ event' = IF o.error # None
                       THEN Event("strands", "on_after_invocation", NA, <<LifecycleCall("finalize", o)>>, 0, FALSE, <<>>,
                                  strands_except(o.error).raised, strands_except(o.error).logged)
                       ELSE Event("strands", "on_after_invocation", NA,
                                <<LifecycleCall("finalize", o)>>, 0, FALSE, <<>>, None, None)
    /\ UNCHANGED <<cedar_vars, remote_vars, schema_vars, task_vars, run_vars>>

\* The body shared by the four adjudicating callbacks: return when no
\* trajectory is active or there is nothing to adjudicate, else adjudicate
\* and, on a denial, do what the callback does with the event.
strands_callback(callback, stage, has_content, on_deny_text, on_deny_halts) ==
    /\ event = NoEvent
    /\ IF harness.trajectory_id = None \/ ~has_content
       THEN event' = Event("strands", callback, NA, <<>>, 0, FALSE, <<>>, None, None)
       ELSE \E a \in harness_adjudicate(harness) :
                event' = IF a.error # None
                         THEN Event("strands", callback, NA, <<Call("adjudicate", stage, a)>>, 0, FALSE, <<>>,
                                  strands_except(a.error).raised, strands_except(a.error).logged)
                         ELSE IF is_denied(a) /\ on_deny_text # None
                              THEN Event("strands", callback, NA, <<Call("adjudicate", stage, a)>>,
                                         0, on_deny_halts, <<Explain(on_deny_text, a.reason)>>, None, None)
                              ELSE Event("strands", callback, NA, <<Call("adjudicate", stage, a)>>,
                                         0, FALSE, <<>>, None, None)

\* _on_before_model_call: a denial is logged.
on_before_model_call ==
    /\ strands_callback("on_before_model_call", "PRE_MODEL", TRUE, None, FALSE)
    /\ UNCHANGED <<harness, cedar_vars, remote_vars, schema_vars, task_vars, run_vars>>

\* _on_after_model_call: a denial is logged; an empty text is not adjudicated.
on_after_model_call(has_content) ==
    /\ strands_callback("on_after_model_call", "POST_MODEL", has_content, None, FALSE)
    /\ UNCHANGED <<harness, cedar_vars, remote_vars, schema_vars, task_vars, run_vars>>

\* _on_before_tool_call: event.cancel_tool = f"Tool blocked by policy: {reason}"
on_before_tool_call ==
    /\ strands_callback("on_before_tool_call", "PRE_TOOL", TRUE, "Tool blocked by policy: ", TRUE)
    /\ UNCHANGED <<harness, cedar_vars, remote_vars, schema_vars, task_vars, run_vars>>

\* _on_after_tool_call: event.result = {... f"Tool result blocked: {reason}" ...}
on_after_tool_call ==
    /\ strands_callback("on_after_tool_call", "POST_TOOL", TRUE, "Tool result blocked: ", FALSE)
    /\ UNCHANGED <<harness, cedar_vars, remote_vars, schema_vars, task_vars, run_vars>>


(***************************************************************************)
(* SonderaHarnessMiddleware: the LangGraph agent middleware.  What the     *)
(* harness raises propagates to the framework.                             *)
(***************************************************************************)
Strategies == {"BLOCK", "STEER"}

\* The values of state.get("trajectory_id"): absent, empty, blank or an id.
StateTrajectoryIds == {None, "", " "} \cup {TrajectoryName(k) : k \in 1..MaxTrajectories}

\* str.strip() on those values.
strip(text) == IF text = " " THEN "" ELSE text

\* The test taking every string for a trajectory id.
carries_trajectory_Unstripped(tid) == tid # None

\* "trajectory_id and trajectory_id.strip()"
carries_trajectory(tid) == tid # None /\ tid # "" /\ strip(tid) # ""

\* abefore_agent(state, runtime): tid is state.get("trajectory_id").
abefore_agent(strategy, tid, has_user_message) ==
    LET resumes == carries_trajectory(tid)
        initializes == ~resumes /\ harness.trajectory_id = None
        outcomes == IF resumes THEN harness_resume(harness, tid)
                    ELSE IF initializes THEN harness_initialize(harness)
                    ELSE {Outcome(None, harness)}
    IN /\ event = NoEvent
       /\ initializes => harness.created < MaxTrajectories
       /\ \E o \in outcomes :
              LET first == IF resumes THEN <<LifecycleCall("resume", o)>>
                           ELSE IF initializes THEN <<LifecycleCall("initialize", o)>>
                           ELSE <<>>
                  updates == IF resumes THEN None ELSE o.harness.trajectory_id
                  Raises(harness_calls, error) ==
                      [Event("langgraph", "abefore_agent", strategy, harness_calls, 0, TRUE,
                                       <<>>, error, None) EXCEPT !.input = tid]
                  Returns(harness_calls, halted, substituted) ==
                      [Event("langgraph", "abefore_agent", strategy, harness_calls, 0, halted,
                                       substituted, None, None)
                       EXCEPT !.updates = updates, !.input = tid]
              IN /\ harness' = o.harness
                 /\ IF o.error # None
                    THEN event' = Raises(first, o.error)
                    ELSE IF ~has_user_message
                    THEN event' = Returns(first, FALSE, <<>>)
                    ELSE \E a \in harness_adjudicate(o.harness) :
                             LET made == Append(first, Call("adjudicate", "PRE_MODEL", a))
                             IN event' =
                                    IF a.error # None
                                    THEN Raises(made, a.error)
                                    ELSE IF ~is_denied(a) THEN Returns(made, FALSE, <<>>)
                                    ELSE IF strategy = "BLOCK"
                                    THEN Returns(made, TRUE, <<<<a.reason>>>>)
                                    ELSE Returns(made, FALSE,
                                             <<Explain("Policy violation in user message: ",
                                                       a.reason)>>)
       /\ UNCHANGED <<cedar_vars, remote_vars, schema_vars, task_vars, run_vars>>

\* The messages of a model response (response.result).
ModelResults ==
    {<<"AIMessage">>, <<"ToolMessage">>, <<"AIMessage", "AIMessage">>, <<"ToolMessage", "AIMessage">>}

\* What a callback has done so far.
Progress(harness_calls, handler, substituted, raised) ==
    [calls |-> harness_calls, handler |-> handler, substituted |-> substituted, raised |-> raised,
     returned |-> FALSE]

\* The loop over response.result, from message i on: each AIMessage is
\* adjudicated and, when denied, replaced (STEER) or returned alone (BLOCK).
\* The set of the ways the loop can go.
RECURSIVE sanitize(_, _, _, _, _)
sanitize(result, i, h, strategy, done) ==
    IF i > Len(result) \/ done.raised # None \/ done.returned THEN {done}
    ELSE IF result[i] # "AIMessage" THEN sanitize(result, i + 1, h, strategy, done)
    ELSE UNION {
             LET made == [done EXCEPT !.calls = Append(@, Call("adjudicate", "POST_MODEL", a))]
                 replaced == [made EXCEPT !.substituted =
                                  Append(@, Explain("Replaced message due to policy violation: ",
                                                    a.reason))]
             IN sanitize(result, i + 1, h, strategy,
                    IF a.error # None THEN [made EXCEPT !.raised = a.error]
                    ELSE IF ~is_denied(a) THEN made
                    ELSE IF strategy = "STEER" THEN replaced
                    ELSE [replaced EXCEPT !.returned = TRUE])
             : a \in harness_adjudicate(h)}

\* awrap_model_call(request, handler); the request's last message is
\* adjudicated when it is an AIMessage.
awrap_model_call(strategy, last_is_ai, result) ==
    /\ event = NoEvent
    /\ \E pre \in IF last_is_ai THEN harness_adjudicate(harness) ELSE {Returned} :
           LET first == IF last_is_ai THEN <<Call("adjudicate", "PRE_MODEL", pre)>> ELSE <<>>
               explained == <<Explain("Replaced message due to policy violation: ", pre.reason)>>
               denied == last_is_ai /\ pre.error = None /\ is_denied(pre)
           IN IF pre.error # None
              THEN event' = Event("langgraph", "awrap_model_call", strategy, first, 0, TRUE, <<>>,
                                            pre.error, None)
              ELSE IF denied /\ strategy # "STEER"
              THEN event' = Event("langgraph", "awrap_model_call", strategy, first, 0, TRUE,
                                            explained, None, None)
              ELSE \E after \in sanitize(result, 1, harness, strategy,
                                    Progress(first, 1, IF denied THEN explained ELSE <<>>, None)) :
                       event' = Event("langgraph", "awrap_model_call", strategy, after.calls,
                                    after.handler, after.raised # None, after.substituted,
                                    after.raised, None)
    /\ UNCHANGED <<harness, cedar_vars, remote_vars, schema_vars, task_vars, run_vars>>

\* The denied tool request replaced by a message and the tool run all the same.
pre_tool_denied_SteerContinues(strategy, reason) ==
    IF strategy = "BLOCK"
    THEN [returns |-> TRUE, substituted |-> Explain("Tool execution was blocked. ", reason)]
    ELSE [returns |-> FALSE,
          substituted |-> Explain("Tool execution modified due to policy concern: ", reason)]

\* awrap_tool_call on a denied request: a Command to END (BLOCK) or a
\* ToolMessage (STEER) is returned.
pre_tool_denied(strategy, reason) ==
    IF strategy = "BLOCK"
    THEN [returns |-> TRUE, substituted |-> Explain("Tool execution was blocked. ", reason)]
    ELSE [returns |-> TRUE,
          substituted |-> Explain("Tool execution modified due to policy concern: ", reason)]

\* awrap_tool_call(request, handler); the handler returns a ToolMessage or a
\* Command.
awrap_tool_call(strategy, result) ==
    /\ event = NoEvent
    /\ \E pre \in harness_adjudicate(harness), post \in harness_adjudicate(harness) :
           LET first == <<Call("adjudicate", "PRE_TOOL", pre)>>
               both == Append(first, Call("adjudicate", "POST_TOOL", post))
               denied == pre.error = None /\ is_denied(pre)
               on_deny == pre_tool_denied(strategy, pre.reason)
               before == IF denied THEN <<on_deny.substituted>> ELSE <<>>
           IN event' =
                  IF pre.error # None
                  THEN Event("langgraph", "awrap_tool_call", strategy, first, 0, TRUE, <<>>, pre.error, None)
                  ELSE IF denied /\ on_deny.returns
                  THEN Event("langgraph", "awrap_tool_call", strategy, first, 0, TRUE, before, None, None)
                  ELSE IF result # "ToolMessage"
                  THEN Event("langgraph", "awrap_tool_call", strategy, first, 1, FALSE, before, None, None)
                  ELSE IF post.error # None
                  THEN Event("langgraph", "awrap_tool_call", strategy, both, 1, TRUE, before, post.error, None)
                  ELSE IF ~is_denied(post)
                  THEN Event("langgraph", "awrap_tool_call", strategy, both, 1, FALSE, before, None, None)
                  ELSE IF strategy = "BLOCK"
                  THEN Event("langgraph", "awrap_tool_call", strategy, both, 1, TRUE,
                           Append(before, Explain("Tool result was blocked. ", post.reason)), None, None)
                  ELSE Event("langgraph", "awrap_tool_call", strategy, both, 1, FALSE,
                           Append(before, Explain("Tool result was modified. ", post.reason)), None, None)
    /\ UNCHANGED <<harness, cedar_vars, remote_vars, schema_vars, task_vars, run_vars>>

\* aafter_agent(state, runtime)
aafter_agent(strategy) ==
    /\ event = NoEvent
    /\ \E o \in harness_finalize(harness) :
           /\ harness' = o.harness
           /\ event' = IF o.error # None
                       THEN Event("langgraph", "aafter_agent", strategy,
                                <<LifecycleCall("finalize", o)>>, 0, TRUE, <<>>, o.error, None)
                       ELSE [Event("langgraph", "aafter_agent", strategy,
                                 <<LifecycleCall("finalize", o)>>, 0, FALSE, <<>>, None, None)
                             EXCEPT !.updates = harness.trajectory_id]
    /\ UNCHANGED <<cedar_vars, remote_vars, schema_vars, task_vars, run_vars>>


(***************************************************************************)
(* SonderaHarnessPlugin: the callbacks of the ADK plugin.  What a callback *)
(* returns replaces the content (or the model or tool call) it guards;     *)
(* None leaves it alone.  What the harness raises propagates.              *)
(***************************************************************************)
\* The body shared by the adjudicating callbacks: return None when there is
\* no text to adjudicate, else adjudicate and, on a denial, return the
\* reason (on_deny_text = None) or the text followed by the reason.
plugin_callback(callback, stage, has_content, first, h, on_deny_text, on_deny_halts) ==
    IF ~has_content
    THEN event' = Event("adk", callback, NA, first, 0, FALSE,
                                <<>>, None, None)
    ELSE \E a \in harness_adjudicate(h) :
             LET made == Append(first, Call("adjudicate", stage, a))
             IN event' =
                    IF a.error # None
                    THEN Event("adk", callback, NA, made, 0, TRUE,
                                <<>>, a.error, None)
                    ELSE IF ~is_denied(a)
                    THEN Event("adk", callback, NA, made, 0, FALSE,
                                <<>>, None, None)
                    ELSE Event("adk", callback, NA, made, 0, on_deny_halts,
                                <<IF on_deny_text = None THEN <<a.reason>> ELSE Explain(on_deny_text, a.reason)>>, None, None)

\* on_user_message_callback: initialize, then adjudicate the last part's text.
on_user_message_callback(has_content) ==
    /\ event = NoEvent
    /\ harness.created < MaxTrajectories
    /\ \E o \in harness_initialize(harness) :
           /\ harness' = o.harness
           /\ IF o.error # None
              THEN event' = Event("adk", "on_user_message_callback", NA, <<LifecycleCall("initialize", o)>>, 0, TRUE,
                                <<>>, o.error, None)
              ELSE plugin_callback("on_user_message_callback", "PRE_MODEL", has_content,
                                   <<LifecycleCall("initialize", o)>>, o.harness, None, FALSE)
    /\ UNCHANGED <<cedar_vars, remote_vars, schema_vars, task_vars, run_vars>>

\* before_model_callback: an LlmResponse holding the reason stands for the model's.
before_model_callback ==
    /\ event = NoEvent
    /\ plugin_callback("before_model_callback", "PRE_MODEL", TRUE, <<>>, harness, None, TRUE)
    /\ UNCHANGED <<harness, cedar_vars, remote_vars, schema_vars, task_vars, run_vars>>

\* after_model_callback
after_model_callback(has_content) ==
    /\ event = NoEvent
    /\ plugin_callback("after_model_callback", "POST_MODEL", has_content, <<>>, harness, None, FALSE)
    /\ UNCHANGED <<harness, cedar_vars, remote_vars, schema_vars, task_vars, run_vars>>

\* before_tool_callback: {"error": f"Tool blocked: {reason}"} stands for the tool's result.
before_tool_callback ==
    /\ event = NoEvent
    /\ plugin_callback("before_tool_callback", "PRE_TOOL", TRUE, <<>>, harness,
                       "Tool blocked: ", TRUE)
    /\ UNCHANGED <<harness, cedar_vars, remote_vars, schema_vars, task_vars, run_vars>>

\* after_tool_callback: {"error": f"Tool result blocked: {reason}"}
after_tool_callback ==
    /\ event = NoEvent
    /\ plugin_callback("after_tool_callback", "POST_TOOL", TRUE, <<>>, harness,
                       "Tool result blocked: ", FALSE)
    /\ UNCHANGED <<harness, cedar_vars, remote_vars, schema_vars, task_vars, run_vars>>

\* after_run_callback
after_run_callback ==
    /\ event = NoEvent
    /\ \E o \in harness_finalize(harness) :
           /\ harness' = o.harness
           /\ event' = Event("adk", "after_run_callback", NA, <<LifecycleCall("finalize", o)>>, 0, o.error # None,
                                <<>>, o.error, None)
    /\ UNCHANGED <<cedar_vars, remote_vars, schema_vars, task_vars, run_vars>>


(***************************************************************************)
(* SonderaGraph: the wrapper of a compiled LangGraph graph.                *)
(***************************************************************************)
\* The number of nodes a wrapped graph executes.
MaxNodes == 1

\* _record_step: what it raises for an adjudication (None: it returns).
record_step(adjudication, enforce) ==
    IF adjudication.error # None THEN adjudication.error
    ELSE IF adjudication.decision = "DENY" /\ enforce THEN "GuardrailViolationError"
    ELSE None

\* The steps of the given stages recorded in turn from step i on, up to the
\* first that raises: the set of the ways this can go.
RECURSIVE record_steps(_, _, _, _, _)
record_steps(stages, i, h, enforce, done) ==
    IF i > Len(stages) \/ done.raised # None THEN {done}
    ELSE UNION {record_steps(stages, i + 1, h, enforce,
                    [done EXCEPT !.calls = Append(@, Call("adjudicate", stages[i], a)),
                                 !.raised = record_step(a, enforce)])
                : a \in harness_adjudicate(h)}

\* ainvoke with the finalize call in a finally clause.
finalizes_Always(raised) == TRUE

\* ainvoke reaches its finalize call when nothing before it has raised.
finalizes(raised) == raised = None

GraphEvent(enforce, harness_calls, handler, raised) ==
    [Event("graph", "ainvoke", NA, harness_calls, handler, raised # None, <<>>, raised, None)
     EXCEPT !.input = IF enforce THEN "enforce" ELSE "observe"]

\* ainvoke(input, config): initialize, record the user's message, run the
\* graph (recording each of its nodes when track_nodes is set), record the
\* final message, finalize.  The graph may raise after its nodes have run.
ainvoke(enforce, track_nodes, has_input, nodes, graph_raises, has_final) ==
    /\ event = NoEvent
    /\ harness.created < MaxTrajectories
    /\ track_nodes \/ nodes = 0
    /\ \E o \in harness_initialize(harness) :
           LET before == IF has_input THEN <<"PRE_MODEL">> ELSE <<>>
               during == [k \in 1..nodes |-> "POST_TOOL"]
               after == IF has_final THEN <<"POST_MODEL">> ELSE <<>>
               start == Progress(<<LifecycleCall("initialize", o)>>, 0, <<>>, None)
           IN IF o.error # None
              THEN /\ harness' = o.harness
                   /\ event' = GraphEvent(enforce, start.calls, 0, o.error)
              ELSE \E input \in record_steps(before, 1, o.harness, enforce, start) :
                   \E invoked \in IF input.raised # None THEN {input}
                                  ELSE record_steps(during, 1, o.harness, enforce,
                                                    [input EXCEPT !.handler = 1]) :
                   \E output \in record_steps(after, 1, o.harness, enforce,
                                     IF invoked.raised = None /\ graph_raises
                                     THEN [invoked EXCEPT !.raised = "Exception"]
                                     ELSE invoked) :
                       IF finalizes(output.raised)
                       THEN \E f \in harness_finalize(o.harness) :
                                /\ harness' = f.harness
                                /\ event' = GraphEvent(enforce,
                                                Append(output.calls, LifecycleCall("finalize", f)),
                                                output.handler,
                                                IF output.raised # None THEN output.raised
                                                ELSE f.error)
                       ELSE /\ harness' = o.harness
                            /\ event' = GraphEvent(enforce, output.calls, output.handler, output.raised)
    /\ UNCHANGED <<cedar_vars, remote_vars, schema_vars, task_vars, run_vars>>


\* No caller of a harness is modelled.
NoCallers == NoTasks /\ NoRuns /\ AdapterInit


(***************************************************************************)
(* Specifications.                                                         *)
(***************************************************************************)
Init == CedarInit /\ NoRemoteHarness /\ NoSynthesis /\ NoCallers

Next ==
    \/ \E ag \in Agents \cup {None} : Initialize(ag) /\ UNCHANGED caller_vars
    \/ Resume /\ UNCHANGED caller_vars
    \/ Finalize /\ UNCHANGED caller_vars
    \/ \E stage \in Stages, kind \in ContentKinds, tool_id \in ToolIds :
           Adjudicate(stage, kind, tool_id) /\ UNCHANGED caller_vars

Spec == Init /\ [][Next]_vars

\* The harness of the repository's internal-error test: it is initialized,
\* its authorizer is substituted and adjudicate is called on the substitute.
NextDrift ==
    \/ \E ag \in Agents \cup {None} :
           trajectory_id = None /\ Initialize(ag) /\ UNCHANGED caller_vars
    \/ MockAuthorizer /\ UNCHANGED caller_vars
    \/ \E stage \in Stages, kind \in ContentKinds, tool_id \in ToolIds :
           authorizer.kind = "mock" /\ Adjudicate(stage, kind, tool_id) /\ UNCHANGED caller_vars

SpecDrift == Init /\ [][NextDrift]_vars

\* One SonderaRemoteHarness and the service behind it.
InitRemote == NoCedarHarness /\ RemoteInit /\ NoSynthesis /\ NoCallers

NextRemote ==
    \/ \E ag \in RemoteAgents \cup {None}, rpc \in {"ok", "fails"}, status \in CreatedStatuses :
           RemoteInitialize(ag, rpc, status)
    \/ \E tid \in TrajectoryNames, ag \in RemoteAgents \cup {None},
          rpc \in {"ok", "get_fails", "update_fails"} :
           RemoteResume(tid, ag, rpc)
    \/ \E rpc \in {"ok", "fails"} : RemoteFinalize(rpc)
    \/ \E rpc \in {"ok", "fails"} : RemoteAdjudicate(rpc)

SpecRemote == InitRemote /\ [][NextRemote]_vars

\* The schema of one agent, synthesized and used to build tool contexts.
InitSchema == NoCedarHarness /\ NoRemoteHarness /\ SchemaInit /\ NoCallers

NextSchema ==
    \/ Synthesize
    \/ \E tool_id \in ToolNames : BuildToolRequest(tool_id)
    \/ \E tool_id \in ToolNames : BuildToolResponse(tool_id)

SpecSchema == InitSchema /\ [][NextSchema]_vars

\* One JSON schema, converted.
InitConvert == NoCedarHarness /\ NoRemoteHarness /\ ConvertInit /\ NoCallers

NextConvert == Convert

SpecConvert == InitConvert /\ [][NextConvert]_vars

\* One harness over a policy set of at most one policy, initialized once;
\* the calls gathered on its trajectory run as tasks of one event loop.
InitTasks == CedarInit /\ Len(policy_set) <= 1 /\ NoRemoteHarness /\ NoSynthesis /\ NoCallers

NextTasks ==
    \/ \E ag \in Agents \cup {None} :
           trajectory_id = None /\ Initialize(ag) /\ UNCHANGED caller_vars
    \/ \E k \in 1..MaxTasks : Gather(k)
    \/ \E t \in 1..MaxTasks, stage \in Stages, kind \in ContentKinds, tool_id \in ToolIds :
           RunTask(t, stage, kind, tool_id)

SpecTasks == InitTasks /\ [][NextTasks]_vars

\* Two agent runs on one harness constructed with an agent.
InitRuns ==
    /\ CedarInit /\ Len(policy_set) <= 1 /\ agent # None
    /\ NoRemoteHarness /\ NoSynthesis /\ NoTasks /\ RunsInit /\ AdapterInit

NextRuns ==
    \/ \E r \in Runs, ag \in Agents \cup {None} : RunInitialize(r, ag)
    \/ \E r \in Runs, stage \in Stages, kind \in ContentKinds, tool_id \in ToolIds :
           RunAdjudicate(r, stage, kind, tool_id)
    \/ \E r \in Runs : RunFinalize(r)

SpecRuns == InitRuns /\ [][NextRuns]_vars

\* The adapters over one Harness, their callbacks called in any order.
InitAdapters ==
    /\ NoCedarHarness /\ NoRemoteHarness /\ NoSynthesis /\ NoTasks /\ NoRuns
    /\ AdapterInit

NextAdapters ==
    \/ Handled
    \/ on_before_invocation
    \/ on_after_invocation
    \/ on_before_model_call
    \/ \E has_content \in BOOLEAN : on_after_model_call(has_content)
    \/ on_before_tool_call
    \/ on_after_tool_call
    \/ \E strategy \in Strategies, tid \in StateTrajectoryIds, has_user_message \in BOOLEAN :
           abefore_agent(strategy, tid, has_user_message)
    \/ \E strategy \in Strategies, last_is_ai \in BOOLEAN, result \in ModelResults :
           awrap_model_call(strategy, last_is_ai, result)
    \/ \E strategy \in Strategies, result \in {"ToolMessage", "Command"} :
           awrap_tool_call(strategy, result)
    \/ \E strategy \in Strategies : aafter_agent(strategy)
    \/ \E has_content \in BOOLEAN : on_user_message_callback(has_content)
    \/ before_model_callback
    \/ \E has_content \in BOOLEAN : after_model_callback(has_content)
    \/ before_tool_callback
    \/ after_tool_callback
    \/ after_run_callback
    \/ \E enforce \in BOOLEAN, track_nodes \in BOOLEAN, has_input \in BOOLEAN,
          nodes \in 0..MaxNodes, graph_raises \in BOOLEAN, has_final \in BOOLEAN :
           ainvoke(enforce, track_nodes, has_input, nodes, graph_raises, has_final)

SpecAdapters == InitAdapters /\ [][NextAdapters]_vars


(***************************************************************************)
(* Properties.                                                             *)
(***************************************************************************)
\* The last call was an adjudicate that submitted a request to the evaluator.
Evaluated == last.op = "adjudicate" /\ last.evaluated

\* The policies of the given effect whose scope and condition hold of the
\* request of the last call, with the entities the evaluator then saw.
MatchingNow(effect) == Matching(effect, last.request, policy_set, authorizer)
PlainForbidsNow == {i \in MatchingNow("Forbid") : policy_set[i].escalate = NoAnn}
EscalateForbidsNow == {i \in MatchingNow("Forbid") : policy_set[i].escalate # NoAnn}
IdsOf(S) == {policy_set[i].id : i \in S}
ListedIds == {last.policies[k].id : k \in 1..Len(last.policies)}

\* C1 (default-closed): when no policy of the policy set matches the request
\* submitted to the evaluator, adjudicate returns DENY with an empty policy
\* list and the reason "No matching permit policy".
DefaultClosed ==
    (Evaluated /\ MatchingNow("Permit") = {} /\ MatchingNow("Forbid") = {})
        => /\ last.error = None
           /\ last.decision = "DENY"
           /\ last.policies = <<>>
           /\ last.reason = "No matching permit policy"

DefaultClosedWitness ==
    /\ Evaluated
    /\ policy_set # <<>>
    /\ MatchingNow("Permit") = {} /\ MatchingNow("Forbid") = {}
    /\ last.decision = "DENY"

\* C2 as stated (escalation subsumption): when an @escalate forbid policy and
\* a plain forbid policy both match, the decision is DENY and the policy list
\* holds only plain forbid policies' ids and never an escalate policy's id.
EscalationSubsumptionAsStated ==
    (Evaluated /\ PlainForbidsNow # {} /\ EscalateForbidsNow # {})
        => /\ last.decision = "DENY"
           /\ ListedIds \subseteq IdsOf(PlainForbidsNow)
           /\ ListedIds \cap IdsOf(EscalateForbidsNow) = {}

\* C2 amended: when an @escalate forbid policy and a plain forbid policy both
\* match, the decision is DENY and the policy list holds one entry per
\* matching plain forbid policy and none made from an escalate policy (every
\* entry has escalate = false and a plain forbid policy's @id, which is also
\* an escalate policy's @id only where the two policies share a duplicate @id).
EscalationSubsumption ==
    (Evaluated /\ PlainForbidsNow # {} /\ EscalateForbidsNow # {})
        => /\ last.decision = "DENY"
           /\ Len(last.policies) = Cardinality(PlainForbidsNow)
           /\ \A k \in 1..Len(last.policies) :
                  /\ ~last.policies[k].escalate
                  /\ last.policies[k].id \in IdsOf(PlainForbidsNow)

EscalationSubsumptionWitness ==
    /\ Evaluated
    /\ PlainForbidsNow # {} /\ EscalateForbidsNow # {}
    /\ IdsOf(PlainForbidsNow) \cap IdsOf(EscalateForbidsNow) = {}
    /\ last.decision = "DENY"
    /\ Len(last.policies) = 1

\* C3 (pure escalation): when the evaluator denies and every matching forbid
\* policy carries @escalate, the decision is ESCALATE and the policy list has
\* exactly one entry per matching escalate policy, marked escalate and with
\* escalate_arg equal to the value of that policy's @escalate annotation.
PureEscalation ==
    (Evaluated /\ PlainForbidsNow = {} /\ EscalateForbidsNow # {})
        => /\ last.decision = "ESCALATE"
           /\ \E o \in Orders(EscalateForbidsNow) :
                  /\ Len(last.policies) = Len(o)
                  /\ \A k \in 1..Len(o) :
                         /\ last.policies[k].id = policy_set[o[k]].id
                         /\ last.policies[k].escalate
                         /\ last.policies[k].escalate_arg = policy_set[o[k]].escalate

PureEscalationWitness ==
    /\ Evaluated
    /\ PlainForbidsNow = {}
    /\ Cardinality(EscalateForbidsNow) = 2
    /\ MatchingNow("Permit") = {}
    /\ last.decision = "ESCALATE"
    /\ \E k \in 1..Len(last.policies) : last.policies[k].escalate_arg = "team"
    /\ \E k \in 1..Len(last.policies) : last.policies[k].escalate_arg = ""


HasEscalatingPermit ==
    \E i \in DOMAIN policy_set : policy_set[i].effect = "Permit" /\ policy_set[i].escalate # NoAnn
LacksId == \E i \in DOMAIN policy_set : policy_set[i].id = NoAnn
HasDuplicateId ==
    \E i, j \in DOMAIN policy_set : i # j /\ policy_set[i].id = policy_set[j].id /\ policy_set[i].id # NoAnn

\* C4 (escalate-on-permit rejection): a policy set holding a permit policy
\* with @escalate makes the constructor fail, so no harness exists and no
\* call, in particular no adjudicate, is ever made against such a policy set.
EscalateOnPermitRejected ==
    HasEscalatingPermit
        => /\ load_error # None
           /\ last.op = "__init__"
           /\ ~last.evaluated

EscalateOnPermitRejectedWitness ==
    /\ HasEscalatingPermit
    /\ ~LacksId
    /\ load_error = "ValueError"
    /\ last.message = "@escalate is only valid on forbid policies"

\* C5 as stated: loading fails with PolicyError whenever a policy lacks @id,
\* and duplicate @id values alone never make loading fail.
MissingIdIsPolicyError ==
    /\ LacksId => load_error = "PolicyError"
    /\ (~LacksId /\ ~HasEscalatingPermit) => load_error = None

\* C5 amended: loading fails with ValueError (no harness is produced)
\* whenever a policy lacks @id, and duplicate @id values alone never make
\* loading fail: each duplicate is logged as a warning and the harness is
\* constructed.
MissingIdIsValueError ==
    /\ LacksId => (load_error = "ValueError" /\ last.op = "__init__")
    /\ (~LacksId /\ ~HasEscalatingPermit) => load_error = None
    /\ (~LacksId /\ ~HasEscalatingPermit /\ HasDuplicateId) => warnings # <<>>
    /\ ~HasDuplicateId => warnings = <<>>

MissingIdIsValueErrorWitness ==
    /\ LacksId
    /\ \E i \in DOMAIN policy_set : policy_set[i].id # NoAnn
    /\ ~HasEscalatingPermit
    /\ load_error = "ValueError"
    /\ last.message = "missing required @id annotation"

\* C6 (step counter monotonicity): the n-th adjudicate call accepted on a
\* trajectory, whatever its stage and content, leaves n in the harness's
\* counter and in the step_count of the Trajectory entity of the evaluator.
StepCounterCountsCalls ==
    (last.op = "adjudicate" /\ last.error = None)
        => /\ last.call_no = calls
           /\ last.observed = last.call_no
           /\ trajectory_step_count = last.call_no
           /\ authorizer.trajectory = trajectory_id
           /\ authorizer.step_count = last.call_no

StepCounterCountsCallsWitness ==
    /\ last.op = "adjudicate"
    /\ last.error = None
    /\ ~last.evaluated
    /\ last.call_no = MaxSteps
    /\ last.observed = MaxSteps
    /\ uuid_count > 1

\* C7 (state errors change nothing): with no active trajectory, adjudicate
\* and finalize raise and leave the attributes of the harness as they were.
StateErrorsChangeNothing ==
    [][(load_error = None /\ trajectory_id = None /\ last'.op \in {"adjudicate", "finalize"})
          => (last'.error # None /\ harness_state' = harness_state)]_vars

StateErrorsChangeNothingWitness ==
    /\ last.op = "adjudicate"
    /\ last.error = "RuntimeError"
    /\ trajectory_id = None
    /\ agent # None
    /\ authorizer.kind = "cedar"
    /\ authorizer.step_count > 0

\* C8 (internal-consistency failures are fatal): when the evaluator returns
\* an identifier that the policy set does not hold, adjudicate raises and
\* returns no decision, whatever the evaluator's effect.
UnresolvedPolicyIsFatal ==
    (Evaluated /\ \E k \in 1..Len(last.response.reason) : last.response.reason[k] \notin DOMAIN policy_set)
        => /\ last.error = "RuntimeError"
           /\ last.decision = NA
           /\ last.policies = <<>>

UnresolvedPolicyIsFatalWitness ==
    /\ Evaluated
    /\ last.response.decision = "Allow"
    /\ \E k \in 1..Len(last.response.reason) : last.response.reason[k] \notin DOMAIN policy_set
    /\ policy_set # <<>>
    /\ last.error = "RuntimeError"

\* The (stage, content) pairs for which adjudicate builds a request.
Governed(stage, kind) ==
    \/ stage \in {"PRE_MODEL", "POST_MODEL"} /\ kind = "PromptContent"
    \/ stage = "PRE_TOOL" /\ kind = "ToolRequestContent"
    \/ stage = "POST_TOOL" /\ kind = "ToolResponseContent"

\* C9 (ungoverned combinations): an adjudicate call on an active trajectory
\* with any other (stage, content) pair returns ALLOW with the reason
\* "Non-tool content allowed by default" and no policies, and submits
\* nothing to the evaluator, whatever the policy set.
UngovernedAllowedByDefault ==
    (last.op = "adjudicate" /\ last.stage # NA /\ ~Governed(last.stage, last.kind))
        => /\ last.error = None
           /\ last.decision = "ALLOW"
           /\ last.reason = "Non-tool content allowed by default"
           /\ last.policies = <<>>
           /\ ~last.evaluated
           /\ last.request = NoRequest

UngovernedAllowedByDefaultWitness ==
    /\ last.op = "adjudicate"
    /\ last.stage = "PRE_TOOL"
    /\ last.kind = "PromptContent"
    /\ last.decision = "ALLOW"
    /\ \E i \in DOMAIN policy_set :
           policy_set[i] = [id |-> "a", effect |-> "Forbid", escalate |-> NoAnn, when |-> "always"]

\* The policy set holds the rate-limit policy: a plain forbid of every
\* request once the step count exceeds Limit.
HasRateLimit ==
    \E i \in DOMAIN policy_set :
        policy_set[i].effect = "Forbid" /\ policy_set[i].escalate = NoAnn /\ policy_set[i].when = "rate"

\* C10 as stated: with the rate-limit policy, every adjudicate call after
\* the Limit-th on a trajectory returns DENY.
RateLimitDeniesEveryCall ==
    (HasRateLimit /\ last.op = "adjudicate" /\ last.error = None /\ last.call_no > Limit)
        => last.decision = "DENY"

\* C10 amended: with the rate-limit policy, every adjudicate call after the
\* Limit-th on a trajectory that adjudicates a tool request at PRE_TOOL or a
\* tool response at POST_TOOL (the requests whose resource is the
\* trajectory) returns DENY; prompts and ungoverned combinations are not
\* denied by it.
RateLimitDeniesToolCalls ==
    (/\ HasRateLimit /\ last.op = "adjudicate" /\ last.error = None /\ last.call_no > Limit
     /\ \/ last.stage = "PRE_TOOL" /\ last.kind = "ToolRequestContent"
        \/ last.stage = "POST_TOOL" /\ last.kind = "ToolResponseContent")
        => last.decision = "DENY"

RateLimitDeniesToolCallsWitness ==
    /\ HasRateLimit
    /\ last.op = "adjudicate"
    /\ last.call_no = Limit + 1
    /\ last.stage = "POST_TOOL" /\ last.kind = "ToolResponseContent"
    /\ \E i \in DOMAIN policy_set : policy_set[i].effect = "Permit" /\ policy_set[i].when = "always"
    /\ last.decision = "DENY"
    /\ last.reason = "Denied by policies"


\* C11: resume on a CedarPolicyHarness always ends in an error and changes no
\* attribute of the harness: an inactive harness stays inactive, an active
\* trajectory keeps its id and its step count.
ResumeFailsLoudly ==
    [][last'.op = "resume" =>
          (last'.error = "NotImplementedError" /\ harness_state' = harness_state)]_vars

\* resume was called on an active trajectory that had counted a step.
ResumeFailsLoudlyWitness ==
    /\ last.op = "resume"
    /\ trajectory_id # None
    /\ trajectory_step_count > 0


\* C12: a resume call on the remote harness that fails because a trajectory
\* is already active, because the requested trajectory does not exist or
\* because it belongs to a different agent leaves the active-trajectory id as
\* it was before the call.
FailedResumeKeepsTrajectory ==
    (remote_last.op = "resume" /\ remote_last.error \in {"RuntimeError", "TrajectoryError"})
        => remote_trajectory_id = remote_last.before


\* C13: once finalize has completed for a trajectory, its status stays
\* completed and no further step is appended to it.
FinalizedIsTerminal ==
    \A k \in DOMAIN service :
        service[k].finalized_steps # -1 =>
            (service[k].status = "completed" /\ service[k].steps = service[k].finalized_steps)


\* Two tools of the agent have distinct names with the same action identifier.
Collides(ag) ==
    \E i, j \in DOMAIN ag.tools :
        /\ ag.tools[i].name # ag.tools[j].name
        /\ Sanitize(ag.tools[i].name) = Sanitize(ag.tools[j].name)

\* C14: no schema is returned for an agent two of whose distinct tool names
\* sanitize to the same action identifier.
CollisionsRejected ==
    \A k \in DOMAIN synthesized : ~Collides(synthesized[k].agent)


\* C15: every synthesized schema holds the fixed Prompt action (principal
\* Agent, resource Message, no typed context) in addition to one action per
\* tool; for an agent without tools Prompt is its only action.
PromptPlusOnePerTool ==
    \A k \in DOMAIN synthesized :
        LET actions == synthesized[k].schema.actions
            tools == synthesized[k].agent.tools
        IN /\ "Prompt" \in DOMAIN actions
           /\ actions["Prompt"] = PromptAction
           /\ Cardinality(DOMAIN actions) = Len(tools) + 1
           /\ tools = <<>> => DOMAIN actions = {"Prompt"}


RECURSIVE DefaultsToString(_, _)
DefaultsToString(schema, type) ==
    IF ~schema.dict THEN TRUE
    ELSE IF schema.type \in {Missing, "custom_type"} THEN type.type = "String"
    ELSE IF schema.type \in ObjectTypes
    THEN \A n \in DOMAIN schema.properties :
             /\ type.type = "Record"
             /\ n \in DOMAIN type.attributes
             /\ DefaultsToString(schema.properties[n], type.attributes[n])
    ELSE IF schema.type = "array" /\ schema.items # <<>>
    THEN /\ type.type = "Set"
         /\ type.element # <<>>
         /\ DefaultsToString(schema.items[1], type.element[1])
    ELSE TRUE

\* C17: a schema node at any nesting depth whose type is missing or
\* unrecognized converts to String.
MissingTypeIsString ==
    cedar_type # <<>> => DefaultsToString(json_schema[1], cedar_type[1])


\* The context attribute is the record {value: <type>} of tool_to_action.
IsWrapped(type) == DOMAIN type.attributes = {"value"}

\* C18: the typed parameters or response value of a tool request or response
\* goes into the context as {value: ...} exactly when the action synthesized
\* for the tool declares that field as the wrapped record {value: <type>}.
ContextMirrorsSchema ==
    (context.built /\ context.typed) =>
        LET actions == agent_to_cedar_schema(descriptor).actions
            declared == actions[context.action].context[1].attributes
        IN /\ context.action \in DOMAIN actions
           /\ actions[context.action].context # <<>>
           /\ context.field \in DOMAIN declared
           /\ context.wrapped <=> IsWrapped(declared[context.field])


\* Some policy of the set reads the step count of the trajectory.
ReadsStepCount == \E i \in DOMAIN policy_set : policy_set[i].when = "rate"

\* The decisions the harness can return for the stage and content of the last
\* call when that call is the n-th adjudication on the trajectory.
VerdictsAt(n) ==
    IF ~last.evaluated THEN {"ALLOW"}
    ELSE {convert_cedar_response_to_adjudication(response, policy_set).decision :
              response \in is_authorized(last.request, policy_set,
                                         [authorizer EXCEPT !.step_count = n])}

InitializeNeedsAgent ==
    /\ (last.op = "initialize" /\ agent = None) => last.error = "ValueError"
    /\ trajectory_id # None => agent # None


\* C21: adjudicate calls issued concurrently against the same active
\* trajectory take effect one at a time: the step counts that the evaluator
\* observed for the calls that have returned are exactly 1..n for n such
\* calls, each observed by exactly one call.
SerializedStepCounts ==
    LET done == {t \in DOMAIN tasks : tasks[t].pc = "done" /\ tasks[t].error = None}
    IN {tasks[t].observed : t \in done} = 1..Cardinality(done)

\* All the gathered calls have returned, and the first one issued was the
\* last one to run.
SerializedStepCountsWitness ==
    /\ Len(tasks) = MaxTasks
    /\ \A t \in DOMAIN tasks : tasks[t].pc = "done" /\ tasks[t].error = None
    /\ tasks[1].observed = MaxTasks


\* C22: runs that interleave on one harness are independent: an adjudicate
\* call of a run that has initialized and not finalized succeeds, is
\* evaluated with the trajectory that the run's initialize created and
\* observes the number of adjudications the run itself has made.
RunsIndependent ==
    (last.op = "adjudicate" /\ caller \in Runs) =>
        /\ last.error = None
        /\ authorizer.trajectory = runs[caller].trajectory
        /\ last.observed = runs[caller].adjudications


\* C27: the policy list of every Adjudication that the harness returns is
\* consistent with its decision: an ALLOW or DENY result lists no escalating
\* policy, an ESCALATE result lists at least one policy and only escalating
\* ones, and the list holds one entry for each policy of its kind that the
\* evaluator returned and no other entry (nothing when the evaluator was not
\* asked).
PolicyListConsistent ==
    (last.op = "adjudicate" /\ last.error = None) =>
        LET returned == last.response.reason
            OfKind(e) == {k \in DOMAIN returned : (policy_set[returned[k]].escalate # NoAnn) = e}
            listed == last.policies
        IN /\ last.decision \in {"ALLOW", "DENY", "ESCALATE"}
           /\ ~last.evaluated => listed = <<>>
           /\ last.decision \in {"ALLOW", "DENY"} =>
                  /\ \A k \in DOMAIN listed : ~listed[k].escalate
                  /\ Len(listed) = Cardinality(OfKind(FALSE))
           /\ last.decision = "ESCALATE" =>
                  /\ listed # <<>>
                  /\ \A k \in DOMAIN listed : listed[k].escalate
                  /\ Len(listed) = Cardinality(OfKind(TRUE))
           /\ \A k \in DOMAIN listed :
                  \E j \in DOMAIN returned : listed[k] = PolicyMetadata(policy_set[returned[j]])

\* The evaluator returned an escalating and a plain forbid policy, and the
\* denial lists the plain one alone.
PolicyListConsistentWitness ==
    /\ last.op = "adjudicate"
    /\ last.decision = "DENY"
    /\ Len(last.response.reason) = 2
    /\ Len(last.policies) = 1


\* C28: the step counter is per trajectory: after every initialize the
\* counter is 0 and the harness holds a fresh trajectory id and an evaluator
\* rebuilt for it (also when a trajectory was active), a successful finalize
\* leaves the counter at 0 with no trajectory, and the first adjudication
\* accepted after an initialize observes step_count 1.
CounterPerTrajectory ==
    /\ last.op = "initialize" =>
           /\ last.error = None
           /\ trajectory_step_count = 0
           /\ trajectory_id = TrajectoryName(uuid_count)
           /\ authorizer = build_authorizer(agent, trajectory_id, 0)
    /\ (last.op = "finalize" /\ last.error = None) =>
           (trajectory_step_count = 0 /\ trajectory_id = None)
    /\ (last.op = "adjudicate" /\ last.error = None /\ last.call_no = 1) =>
           (last.observed = 1 /\ authorizer.trajectory = trajectory_id)

\* The first adjudication of a second trajectory of the harness.
CounterPerTrajectoryWitness ==
    /\ last.op = "adjudicate"
    /\ last.error = None
    /\ last.call_no = 1
    /\ uuid_count = 2
    /\ last.observed = 1


\* The adjudicate calls of the callback that returned a denial, in order.
Denials == LET Denied(c) == c.op = "adjudicate" /\ c.error = None /\ c.decision = "DENY"
           IN SelectSeq(event.calls, Denied)

Contains(text, part) == \E k \in DOMAIN text : text[k] = part

\* C23: in every callback of the LangGraph middleware, the ADK plugin and
\* the Strands hook, a step adjudicated DENY is not passed on unchanged: for
\* each denial the callback puts an explanatory text in place of the
\* content, and that text contains the reason of the adjudication.
DenialExplained ==
    (event.adapter \in {"langgraph", "adk", "strands"} /\ event.raised = None) =>
        /\ Len(event.substituted) = Len(Denials)
        /\ \A k \in DOMAIN Denials : Contains(event.substituted[k], Denials[k].reason)


AdjudicatesAfterTrajectory ==
    \A k \in DOMAIN event.calls :
        event.calls[k].op = "adjudicate" => (k = 1 \/ (k = 2 /\ event.calls[1].error = None))

Called(op) == \E k \in DOMAIN event.calls : event.calls[k].op = op

StrandsSwallowsErrors ==
    event.adapter = "strands" =>
        /\ event.raised = None
        /\ \A k \in DOMAIN event.calls :
               event.calls[k].error # None =>
                   /\ event.logged = event.calls[k].error
                   /\ ~event.halted
                   /\ event.substituted = <<>>

\* The PRE_TOOL adjudication raised and the tool call was not cancelled.
StrandsSwallowsErrorsWitness ==
    /\ event.callback = "on_before_tool_call"
    /\ event.calls # <<>>
    /\ event.calls[1].error # None
    /\ event.logged # None
    /\ ~event.halted


\* C29: the adapters block on DENY alone: a callback whose adjudications all
\* returned and none of them DENY, one at least being ESCALATE, lets the
\* action proceed as for ALLOW: nothing is raised, stopped or substituted,
\* and the wrapped handler (the tool, the model, the graph) is invoked.
EscalateProceeds ==
    LET Adjudicated == {k \in DOMAIN event.calls : event.calls[k].op = "adjudicate"}
    IN (/\ \A k \in DOMAIN event.calls : event.calls[k].error = None
        /\ \A k \in Adjudicated : event.calls[k].decision # "DENY"
        /\ \E k \in Adjudicated : event.calls[k].decision = "ESCALATE"
        /\ event.raised # "Exception") =>
           /\ event.raised = None
           /\ ~event.halted
           /\ event.substituted = <<>>
           /\ event.callback \in {"awrap_tool_call", "awrap_model_call", "ainvoke"} =>
                  event.handler = 1

\* The PRE_TOOL adjudication of awrap_tool_call was ESCALATE and the tool ran.
EscalateProceedsWitness ==
    /\ event.callback = "awrap_tool_call"
    /\ event.calls[1].decision = "ESCALATE"
    /\ event.handler = 1
    /\ ~event.halted


\* C30: ainvoke finalizes on normal completion only: when a recorded step
\* raises (GuardrailViolationError for an enforced DENY, or the harness's
\* error) or the graph raises, finalize is not called and the trajectory
\* that ainvoke initialized is still the active one; finalize is called
\* whenever nothing before it raised.
FinalizeOnlyOnCompletion ==
    event.callback = "ainvoke" =>
        LET n == Len(event.calls)
            finalized == event.calls[n].op = "finalize"
            Failed(k) == \/ event.calls[k].error # None
                         \/ (event.input = "enforce" /\ event.calls[k].decision = "DENY")
        IN /\ event.raised \in {"GuardrailViolationError", "Exception"} =>
                  (~finalized /\ harness.trajectory_id = TrajectoryName(harness.created))
           /\ finalized => \A k \in 1..(n - 1) : ~Failed(k)
           /\ event.raised = None => finalized
           /\ \A k \in 1..(n - 1) : event.calls[k].op # "finalize"

\* An enforced DENY on a node's output raised GuardrailViolationError after
\* the graph had run, and the trajectory is still active.
FinalizeOnlyOnCompletionWitness ==
    /\ event.callback = "ainvoke"
    /\ event.raised = "GuardrailViolationError"
    /\ event.handler = 1
    /\ harness.trajectory_id # None
====================================================================
